---- MODULE Spec2Model ----
(***************************************************************************)
(* A model of vdns (sharhalakis/vdns): zone generation from a database and *)
(* an optional dynamic zone file, the zone-file parser and renderer, and   *)
(* the nested-transaction counter of the database layer.                   *)
(*                                                                         *)
(* The module holds several specifications over one set of variables; each *)
(* specification drives one part of the program and leaves the variables   *)
(* of the other parts at their idle values:                                *)
(*   SpecSerial  ZoneMaker.get_zone_data serial reconciliation             *)
(*   SpecTxn     DB0.begin / commit / rollback                             *)
(*   SpecSub     ZoneMaker.get_zone_data subdomain recursion               *)
(*   SpecRead    ZoneParser.read, line by line                             *)
(*   SpecZone    Zone.make followed by ZoneParser.read (round trip)        *)
(*   SpecMerge   parsing.merge_multiline, line_ends_in_parentheses         *)
(*   SpecGlue    ZoneMaker.get_zone_data glue records, Zone0.make_subzones *)
(*   SpecRev     ZoneRev.make and Zone0.mkrecord for PTR records           *)
(*   SpecHosts   Zone0.make_hosts                                          *)
(*   SpecRecord  Zone0.mkrecord for single records                         *)
(*   SpecKeyid   dnssec.calc_dnssec_keyid                                  *)
(*   SpecHead    parse_line on the items before the RR type, and read()    *)
(*   SpecDkim    rr.DKIM._records followed by rr.DKIM._parse_dkim          *)
(***************************************************************************)
EXTENDS Integers, Sequences, FiniteSets, TLC

VARIABLES
    \* ---- serial reconciliation (SpecSerial)
    domainsRow,     \* the row of the domain in table domains: serial, ts, updated
    dynData,        \* TRUE when the Dynamic source has host entries to report
    zoneFileSerial, \* the SOA serial of the existing zone file in zonedir,
                    \* and how many dynamic updates it has had
    zonedir,        \* TRUE when ZoneMaker was built with a zonedir
    today,          \* index in Days of the current calendar day
    gen,            \* what the last run of get_zone_data / doit did
    prevOut,        \* the serial produced by the run before the last one
    \* ---- transactions (SpecTxn)
    txn,            \* DB0: transaction_depth, transaction_rollback
    sqlLog,         \* the statements DB0._exec was called with, in order
    txnHist,        \* history: calls so far, properly nested so far, inner rollback seen
    \* ---- subdomain recursion (SpecSub)
    subReports,     \* per domain: the 'subs' list its main source reports, once read
    callStack,      \* the get_zone_data runs in progress, outermost first
    subStatus,      \* idle, running, returned, or the exception raised
    \* ---- zone file reading (SpecRead)
    zp,             \* ZoneParser: self.dt and the locals of read()
    readHist,       \* lines read so far, the last line, the state before it
    \* ---- rendering and the round trip (SpecZone)
    zoneData,       \* the data of a zone, as handed to Zone
    zoneRun,        \* the test run: rendered text, what read() made of it, the
                    \* rows stored from that, and their rendering
    recOut,         \* the last call of mkrecord: its arguments and its result
    \* ---- merging continuation lines (SpecMerge)
    mg,             \* a text, what merge_multiline made of it, and how far
                    \* line_ends_in_parentheses has gone through its lines
    \* ---- single calls (SpecGlue and the specifications after it)
    fnCall          \* the arguments of a call and what it gave

serialVars == <<domainsRow, dynData, zoneFileSerial, zonedir, today, gen, prevOut>>
txnVars    == <<txn, sqlLog, txnHist>>
subVars    == <<subReports, callStack, subStatus>>
readVars   == <<zp, readHist>>
zoneVars   == <<zoneData, zoneRun, recOut>>
mergeVars  == <<mg>>
callVars   == <<fnCall>>
vars       == <<serialVars, txnVars, subVars, readVars, zoneVars, mergeVars, callVars>>

\* What each part leaves alone
notSerial == <<txnVars, subVars, readVars, zoneVars, mergeVars, callVars>>
notTxn    == <<serialVars, subVars, readVars, zoneVars, mergeVars, callVars>>
notSub    == <<serialVars, txnVars, readVars, zoneVars, mergeVars, callVars>>
notRead   == <<serialVars, txnVars, subVars, zoneVars, mergeVars, callVars>>
notZone   == <<serialVars, txnVars, subVars, readVars, mergeVars, callVars>>
notMerge  == <<serialVars, txnVars, subVars, readVars, zoneVars, callVars>>
notCall   == <<serialVars, txnVars, subVars, readVars, zoneVars, mergeVars>>

(***************************************************************************)
(* Serial numbers.  Python integers are unbounded and a date-form serial   *)
(* can exceed 2^31 (YYYYMMDD followed by "100" has 11 digits), so a serial *)
(* n is held as the pair q = n div 100, r = n mod 100.                     *)
(***************************************************************************)
Ser(q, r) == [q |-> q, r |-> r]

SerLess(a, b) == a.q < b.q \/ (a.q = b.q /\ a.r < b.r)

\* Python max(a, b)
SerMax(a, b) == IF SerLess(a, b) THEN b ELSE a

\* n + 1
SerPlus1(a) == IF a.r = 99 THEN Ser(a.q + 1, 0) ELSE Ser(a.q, a.r + 1)

\* the literal -1 that get_zone_data starts its scan with
SerMinus1 == Ser(-1, 99)

DateThreshold == 1000000000

\* old > 1000000000
IsDateForm(old) ==
    \/ old.q > DateThreshold \div 100
    \/ old.q = DateThreshold \div 100 /\ old.r > DateThreshold % 100

RECURSIVE NumDigits(_)
NumDigits(n) == IF n < 10 THEN 1 ELSE 1 + NumDigits(n \div 10)

RECURSIVE Pow10(_)
Pow10(k) == IF k = 0 THEN 1 ELSE 10 * Pow10(k - 1)

\* int(str(old)[:8]) for a date-form serial: the digits of old are those of q
\* followed by the two digits of r, and q has at least 8 digits
Prefix8(old) == old.q \div Pow10(NumDigits(old.q) - 8)

\* The calendar days the clock can show, as YYYYMMDD
Days == <<20231231, 20240101, 20240102>>

\* time.strftime('%Y%m%d') as a number
Ser0 == Days[today]

NoError == "none"

(***************************************************************************)
(* vdns.src.src0.Source.incserial_date                                     *)
(***************************************************************************)
incserial_date(old) ==
    IF IsDateForm(old)
    THEN IF Prefix8(old) = Ser0
         THEN \* idx = old % 100; ser = int(f'{ser0}{(idx + 1):02}')
              LET idx == old.r IN
              IF idx + 1 < 100
              THEN [raised |-> NoError, ser |-> Ser(Ser0, idx + 1)]
              ELSE \* ':02' is a minimum width: "100" is appended whole
                   [raised |-> NoError, ser |-> Ser(Ser0 * 10 + 1, 0)]
         ELSE IF old.q < Ser0
              THEN [raised |-> NoError, ser |-> Ser(Ser0, 0)]
              ELSE [raised |-> "Exception", ser |-> old]
    ELSE [raised |-> NoError, ser |-> SerPlus1(old)]

(***************************************************************************)
(* The sources of a ZoneMaker: the database always, the dynamic zone file  *)
(* when a zonedir was given.                                               *)
(***************************************************************************)
_mksources == IF zonedir THEN <<"DB", "Dynamic">> ELSE <<"DB">>

\* vdns.src.dynamic.Dynamic.determine_dynamic_serial
determine_dynamic_serial(serial) == SerMax(serial, zoneFileSerial.serial)

\* Source.get_data: has is FALSE for a None result
get_data(source) ==
    IF source = "DB"
    THEN [has |-> TRUE, serial |-> domainsRow.serial]
    ELSE IF dynData
         THEN [has |-> TRUE, serial |-> determine_dynamic_serial(domainsRow.serial)]
         ELSE [has |-> FALSE, serial |-> SerMinus1]

\* Source.has_changed
has_changed(source) ==
    IF source = "DB" THEN ~(domainsRow.updated <= domainsRow.ts) ELSE FALSE

\* Every source incrementing by the date policy
incserial_alldate(source, oldserial) == incserial_date(oldserial)

\* Source.incserial
incserial(source, oldserial) ==
    IF source = "DB"
    THEN incserial_date(oldserial)
    ELSE [raised |-> NoError, ser |-> SerPlus1(oldserial)]

\* vdns.db.DB.store_serial, reached from DB.set_serial; Dynamic.set_serial
\* does nothing
store_serial(row, newserial) ==
    [row EXCEPT !.serial = newserial, !.ts = row.updated]

\* The scan stopping at the first source that has data
ScanStep_first(acc, idx, t_data) ==
    IF ~t_data.has THEN acc
    ELSE IF acc.max_idx = 0
         THEN [max_idx |-> idx, serial |-> t_data.serial]
         ELSE acc

\* One iteration of the scan for the maximum serial in get_zone_data
ScanStep(acc, idx, t_data) ==
    IF ~t_data.has THEN acc
    ELSE IF SerLess(acc.serial, t_data.serial)
         THEN [max_idx |-> idx, serial |-> t_data.serial]
         ELSE acc

RECURSIVE ScanFrom(_, _, _)
ScanFrom(sourcedata, idx, acc) ==
    IF idx > Len(sourcedata) THEN acc
    ELSE ScanFrom(sourcedata, idx + 1, ScanStep(acc, idx, sourcedata[idx]))

\* max_idx counts from 1 here; 0 stands for the initial -1
MaxScan(sourcedata) == ScanFrom(sourcedata, 1, [max_idx |-> 0, serial |-> SerMinus1])

MaxGen == 3
MaxUpdated == 2
MaxFileBumps == 1

(***************************************************************************)
(* ZoneMaker.doit(incserial): get_zone_data reconciles the serial and      *)
(* stores it, then Zone(data).make() renders.  renders is FALSE for data   *)
(* that make() raises on.                                                  *)
(***************************************************************************)
NoRun ==
    [n |-> 0, inc |-> FALSE, changed |-> FALSE, reported |-> <<>>,
     oldserial |-> SerMinus1, max_idx |-> 0, serial |-> SerMinus1,
     raised |-> NoError, setSerial |-> <<>>]

doit(incserial_arg, renders) ==
    /\ gen.n < MaxGen
    /\ LET sources    == _mksources
           sourcedata == [i \in DOMAIN sources |-> get_data(sources[i])]
           scan       == MaxScan(sourcedata)
           changed    == \E i \in DOMAIN sources : has_changed(sources[i])
           inc        == incserial(sources[scan.max_idx], scan.serial)
           run        == [n |-> gen.n + 1, inc |-> incserial_arg,
                          changed |-> changed, reported |-> sourcedata,
                          oldserial |-> scan.serial, max_idx |-> scan.max_idx,
                          serial |-> scan.serial, raised |-> NoError,
                          setSerial |-> <<>>]
       IN  IF incserial_arg /\ changed
           THEN IF inc.raised # NoError
                THEN /\ gen' = [run EXCEPT !.raised = inc.raised]
                     /\ domainsRow' = domainsRow
                ELSE /\ gen' = [run EXCEPT
                                  !.serial = inc.ser,
                                  !.raised = IF renders THEN NoError ELSE "render",
                                  !.setSerial = [i \in DOMAIN sources |->
                                       [source |-> sources[i], serial |-> inc.ser]]]
                     /\ domainsRow' = store_serial(domainsRow, inc.ser)
           ELSE /\ gen' = [run EXCEPT
                             !.raised = IF renders THEN NoError ELSE "render"]
                /\ domainsRow' = domainsRow
    /\ prevOut' = IF gen.n > 0 /\ gen.raised = NoError THEN gen.serial ELSE prevOut
    /\ UNCHANGED <<dynData, zoneFileSerial, zonedir, today>>
    /\ UNCHANGED notSerial

\* A record of the domain is edited: the database stamps the row
DataChange ==
    /\ domainsRow.updated < MaxUpdated
    /\ domainsRow' = [domainsRow EXCEPT !.updated = @ + 1]
    /\ UNCHANGED <<dynData, zoneFileSerial, zonedir, today, gen, prevOut>>
    /\ UNCHANGED notSerial

\* Entries of table dynamic, or their hosts in the zone file, come and go
DynamicChange ==
    /\ zonedir
    /\ dynData' = ~dynData
    /\ UNCHANGED <<domainsRow, zoneFileSerial, zonedir, today, gen, prevOut>>
    /\ UNCHANGED notSerial

\* The name server applies a dynamic update and bumps the zone file serial
FileBump ==
    /\ zonedir
    /\ zoneFileSerial.n < MaxFileBumps
    /\ zoneFileSerial' = [n |-> zoneFileSerial.n + 1,
                          serial |-> SerPlus1(zoneFileSerial.serial)]
    /\ UNCHANGED <<domainsRow, dynData, zonedir, today, gen, prevOut>>
    /\ UNCHANGED notSerial

\* Midnight passes
NextDay ==
    /\ today < Len(Days)
    /\ today' = today + 1
    /\ UNCHANGED <<domainsRow, dynData, zoneFileSerial, zonedir, gen, prevOut>>
    /\ UNCHANGED notSerial

InitDbSerials == {Ser(0, 7), Ser(Days[1], 99), Ser(Days[2], 0)}
InitFileSerials == {Ser(0, 9), Ser(Days[1], 99)}

(***************************************************************************)
(* Claims on the serial.                                                   *)
(***************************************************************************)
Produced == gen.n > 0 /\ gen.raised = NoError

\* C1: across successive zone generations of one domain, whatever happens
\* in between (data edits, dynamic updates, midnight), the serial of a
\* generated zone is never smaller than that of the zone generated before it.
C1_SerialNeverDecreases ==
    (Produced /\ prevOut # SerMinus1) => ~SerLess(gen.serial, prevOut)

\* The serials of the sources that returned data
ReportedSerials(reported) ==
    {reported[i].serial : i \in {j \in DOMAIN reported : reported[j].has}}

\* C8: the serial get_zone_data starts from is the maximum of the serials
\* reported by the sources that returned data, and the serial the dynamic
\* source reports is the larger of the database serial and the serial of
\* the existing zone file.
C8_OldSerialIsMax ==
    [][gen'.n # gen.n =>
         /\ gen'.oldserial \in ReportedSerials(gen'.reported)
         /\ \A t \in ReportedSerials(gen'.reported) : ~SerLess(gen'.oldserial, t)
         /\ (zonedir /\ dynData) =>
               /\ gen'.reported[2].has
               /\ gen'.reported[2].serial \in {domainsRow.serial, zoneFileSerial.serial}
               /\ ~SerLess(gen'.reported[2].serial, domainsRow.serial)
               /\ ~SerLess(gen'.reported[2].serial, zoneFileSerial.serial)]_vars

\* A run in which the dynamic source reported a larger serial than the
\* database and that serial became the starting serial
C8_Witness ==
    /\ gen.n > 0
    /\ Len(gen.reported) = 2
    /\ gen.reported[2].has
    /\ SerLess(gen.reported[1].serial, gen.reported[2].serial)
    /\ gen.oldserial = gen.reported[2].serial

MaxCalls == 6

begin(t) ==
    IF t.transaction_depth = 0
    THEN [t |-> [transaction_depth |-> 1, transaction_rollback |-> FALSE],
          exec |-> <<"BEGIN">>]
    ELSE [t |-> [t EXCEPT !.transaction_depth = @ + 1], exec |-> <<>>]

commit(t) ==
    LET depth == t.transaction_depth - 1 IN
    IF depth = 0
    THEN [t |-> [transaction_depth |-> 0, transaction_rollback |-> FALSE],
          exec |-> IF t.transaction_rollback THEN <<"ROLLBACK">> ELSE <<"COMMIT">>]
    ELSE [t |-> [t EXCEPT !.transaction_depth = depth], exec |-> <<>>]

\* rollback() that forgets to mark the enclosing transaction
rollback_unmarked(t) ==
    LET depth == t.transaction_depth - 1 IN
    IF depth = 0
    THEN [t |-> [transaction_depth |-> 0, transaction_rollback |-> FALSE],
          exec |-> <<"ROLLBACK">>]
    ELSE [t |-> [t EXCEPT !.transaction_depth = depth], exec |-> <<>>]

rollback(t) ==
    LET depth == t.transaction_depth - 1 IN
    IF depth = 0
    THEN [t |-> [transaction_depth |-> 0, transaction_rollback |-> FALSE],
          exec |-> <<"ROLLBACK">>]
    ELSE [t |-> [transaction_depth |-> depth, transaction_rollback |-> TRUE],
          exec |-> <<>>]

\* The history of the calls: nested is TRUE while no commit() or rollback()
\* came without an open begin(); inner is TRUE when rollback() was called at
\* depth greater than one since the outermost begin(); closedInner is the
\* value inner had when the outermost level was last closed.
Record(call, r) ==
    /\ txn' = r.t
    /\ sqlLog' = sqlLog \o r.exec
    /\ txnHist' =
         [calls  |-> txnHist.calls + 1,
          last   |-> call,
          nested |-> txnHist.nested /\ (call = "begin" \/ txn.transaction_depth >= 1),
          inner  |-> IF call = "begin" /\ txn.transaction_depth = 0 THEN FALSE
                     ELSE txnHist.inner
                          \/ (call = "rollback" /\ txn.transaction_depth > 1),
          closedInner |-> IF call # "begin" /\ txn.transaction_depth = 1
                          THEN txnHist.inner ELSE txnHist.closedInner]

CallBegin ==
    /\ txnHist.calls < MaxCalls
    /\ Record("begin", begin(txn))
    /\ UNCHANGED notTxn

CallCommit ==
    /\ txnHist.calls < MaxCalls
    /\ Record("commit", commit(txn))
    /\ UNCHANGED notTxn

CallRollback ==
    /\ txnHist.calls < MaxCalls
    /\ Record("rollback", rollback(txn))
    /\ UNCHANGED notTxn

TxnIdle ==
    /\ txn = [transaction_depth |-> 0, transaction_rollback |-> FALSE]
    /\ sqlLog = <<>>
    /\ txnHist = [calls |-> 0, last |-> "none", nested |-> TRUE, inner |-> FALSE,
                  closedInner |-> FALSE]

SerialIdle ==
    /\ domainsRow = [serial |-> Ser(0, 7), ts |-> 0, updated |-> 0]
    /\ zonedir = FALSE
    /\ dynData = FALSE
    /\ zoneFileSerial = [n |-> 0, serial |-> Ser(0, 9)]
    /\ today = 1
    /\ gen = NoRun
    /\ prevOut = SerMinus1

\* C7: in a properly nested sequence of begin / commit / rollback, when
\* rollback() was called at a depth greater than one since the outermost
\* begin(), the call that closes the outermost level (commit or rollback)
\* executes exactly ROLLBACK, never COMMIT.
C7_InnerRollbackWins ==
    [][(txnHist.nested /\ txnHist.inner /\ txn.transaction_depth = 1
        /\ txnHist'.last # "begin" /\ txnHist'.calls # txnHist.calls)
       => sqlLog' = Append(sqlLog, "ROLLBACK")]_vars

\* commit() has closed the outermost level after an inner rollback()
C7_Witness ==
    /\ txnHist.nested
    /\ txnHist.closedInner
    /\ txnHist.last = "commit"
    /\ txn.transaction_depth = 0
    /\ Len(sqlLog) > 0
    /\ sqlLog[Len(sqlLog)] = "ROLLBACK"

(***************************************************************************)
(* ZoneMaker.get_zone_data: the loop over the subdomains the main source   *)
(* reports, with a nested ZoneMaker(subname).get_zone_data() for each.     *)
(* Names are strings, held as sequences of characters.                     *)
(***************************************************************************)
MaxSubs == 2
MaxDepth == 4

DomainNames ==
    { <<"b">>,
      <<"a", ".", "b">>,
      <<"a", "b">>,
      <<"c", ".", "a", ".", "b">> }

\* Python s[-n:] for n > 0
Suffix(s, n) == IF n >= Len(s) THEN s ELSE SubSeq(s, Len(s) - n + 1, Len(s))

\* The lists of at most n names
RECURSIVE NameLists(_)
NameLists(n) ==
    IF n = 0 THEN {<<>>}
    ELSE NameLists(n - 1) \cup
         {Append(l, d) : l \in {x \in NameLists(n - 1) : Len(x) = n - 1}, d \in DomainNames}

Unread == [read |-> FALSE, subs |-> <<>>]

\* A run of get_zone_data for a domain: the list it iterates and its place
Frame(domain, subs) == [domain |-> domain, subs |-> subs, i |-> 1]

\* Entering get_zone_data(domain): the main source's data is read; the
\* source reports the same list every time it is asked
Enter(domain, subs) ==
    /\ IF subReports[domain].read
       THEN subs = subReports[domain].subs /\ subReports' = subReports
       ELSE subReports' = [subReports EXCEPT ![domain] = [read |-> TRUE, subs |-> subs]]
    /\ callStack' = Append(callStack, Frame(domain, subs))

\* The test get_zone_data makes on a reported name: subname[-ldom:] != domain
BadSubdomain(subname, domain) == Suffix(subname, Len(domain)) # domain

Top == callStack[Len(callStack)]

\* A zone generation is requested for a domain
GetZoneData ==
    /\ subStatus = "idle"
    /\ \E domain \in DomainNames, subs \in NameLists(MaxSubs) : Enter(domain, subs)
    /\ subStatus' = "running"
    /\ UNCHANGED notSub

\* The reported name fails the test: raise Exception('Something went bad')
SubRaise ==
    /\ subStatus = "running"
    /\ Top.i <= Len(Top.subs)
    /\ BadSubdomain(Top.subs[Top.i], Top.domain)
    /\ subStatus' = "Exception"
    /\ UNCHANGED <<subReports, callStack>>
    /\ UNCHANGED notSub

\* The reported name passes the test: the nested run starts
SubRecurse ==
    /\ subStatus = "running"
    /\ Top.i <= Len(Top.subs)
    /\ ~BadSubdomain(Top.subs[Top.i], Top.domain)
    /\ Len(callStack) < MaxDepth
    /\ \E subs \in NameLists(MaxSubs) : Enter(Top.subs[Top.i], subs)
    /\ UNCHANGED subStatus
    /\ UNCHANGED notSub

\* The interpreter's recursion limit
SubOverflow ==
    /\ subStatus = "running"
    /\ Top.i <= Len(Top.subs)
    /\ ~BadSubdomain(Top.subs[Top.i], Top.domain)
    /\ Len(callStack) = MaxDepth
    /\ subStatus' = "RecursionError"
    /\ UNCHANGED <<subReports, callStack>>
    /\ UNCHANGED notSub

\* The loop is over: the run returns and its caller moves to the next name
SubReturn ==
    /\ subStatus = "running"
    /\ Top.i > Len(Top.subs)
    /\ LET rest == SubSeq(callStack, 1, Len(callStack) - 1) IN
       IF rest = <<>>
       THEN callStack' = rest /\ subStatus' = "returned"
       ELSE /\ callStack' = [rest EXCEPT ![Len(rest)].i = @ + 1]
            /\ subStatus' = subStatus
    /\ UNCHANGED subReports
    /\ UNCHANGED notSub

SubIdle ==
    /\ subReports = [d \in DomainNames |-> Unread]
    /\ callStack = <<>>
    /\ subStatus = "idle"

Digits == {"0", "1", "2", "3", "4", "5", "6", "7", "8", "9"}

DigitVal(c) ==
    CASE c = "0" -> 0 [] c = "1" -> 1 [] c = "2" -> 2 [] c = "3" -> 3
      [] c = "4" -> 4 [] c = "5" -> 5 [] c = "6" -> 6 [] c = "7" -> 7
      [] c = "8" -> 8 [] c = "9" -> 9

DigitChar(n) == CHOOSE c \in Digits : DigitVal(c) = n

IsNumber(st) == st # <<>> /\ \A i \in DOMAIN st : st[i] \in Digits

\* int(st) of a string of digits
RECURSIVE ToInt(_)
ToInt(st) ==
    IF st = <<>> THEN 0
    ELSE 10 * ToInt(SubSeq(st, 1, Len(st) - 1)) + DigitVal(st[Len(st)])

\* '%d' % n for n >= 0
RECURSIVE IntToStr(_)
IntToStr(n) ==
    IF n < 10 THEN <<DigitChar(n)>>
    ELSE Append(IntToStr(n \div 10), DigitChar(n % 10))

\* str.upper() on the unit letters
Upper(c) ==
    CASE c = "m" -> "M" [] c = "h" -> "H" [] c = "d" -> "D" [] c = "w" -> "W"
      [] OTHER -> c

\* Python st[:n]
Prefix(st, n) == SubSeq(st, 1, IF n < Len(st) THEN n ELSE Len(st))

\* sub in st
Contains(st, sub) ==
    \E i \in 1..(Len(st) - Len(sub) + 1) : SubSeq(st, i, i + Len(sub) - 1) = sub

\* st.strip(ch)
RECURSIVE Strip(_, _)
Strip(st, ch) ==
    IF st = <<>> THEN st
    ELSE IF st[1] = ch THEN Strip(Tail(st), ch)
    ELSE IF st[Len(st)] = ch THEN Strip(SubSeq(st, 1, Len(st) - 1), ch)
    ELSE st

\* st.replace(ch, '')
Without(st, ch) == SelectSeq(st, LAMBDA c : c # ch)

\* st.count(ch)
Count(st, ch) == Len(SelectSeq(st, LAMBDA c : c = ch))

None == [none |-> TRUE]
Some(v) == [v |-> v]

\* A missing name (Python None where a string is expected)
NoName == <<"None">>

T_IN     == <<"I", "N">>
T_A      == <<"A">>
T_AAAA   == <<"A", "A", "A", "A">>
T_NS     == <<"N", "S">>
T_CNAME  == <<"C", "N", "A", "M", "E">>
T_MX     == <<"M", "X">>
T_TXT    == <<"T", "X", "T">>
T_SOA    == <<"S", "O", "A">>
T_DNSKEY == <<"D", "N", "S", "K", "E", "Y">>
T_PTR    == <<"P", "T", "R">>
T_RRSIG  == <<"R", "R", "S", "I", "G">>
T_NSEC   == <<"N", "S", "E", "C">>
T_SSHFP  == <<"S", "S", "H", "F", "P">>
T_SRV    == <<"S", "R", "V">>
T_TTL    == <<"$", "T", "T", "L">>
T_ORIGIN == <<"$", "O", "R", "I", "G", "I", "N">>
T_AT     == <<"@">>

\* zoneparser.RRS
RRS == {T_A, T_AAAA, T_NS, T_CNAME, T_MX, T_TXT, T_SOA, T_DNSKEY, T_PTR}

\* zoneparser.is_ttl
is_ttl(st) ==
    /\ st # <<>>
    /\ st[1] \in Digits
    /\ st[Len(st)] # "."
    /\ ~Contains(st, <<"a", "r", "p", "a">>)

Minute == 60
Hour == 3600
Day == 86400
Week == 86400 * 7

\* the deltas of parse_ttl
Deltas == [M |-> Minute, H |-> Hour, D |-> Day, W |-> Week]

\* parse_ttl returns for these strings; it raises for the others
ParsesAsTtl(st) ==
    /\ st # <<>>
    /\ IF st[Len(st)] \in Digits
       THEN IsNumber(st)
       ELSE /\ IsNumber(SubSeq(st, 1, Len(st) - 1))
            /\ Upper(st[Len(st)]) \in DOMAIN Deltas

\* zoneparser.parse_ttl
parse_ttl(st) ==
    IF st[Len(st)] \in Digits
    THEN ToInt(st)
    ELSE ToInt(SubSeq(st, 1, Len(st) - 1)) * Deltas[Upper(st[Len(st)])]

\* The index of the first item that is a known RR, 0 when there is none
FirstRR(items) ==
    IF \E i \in DOMAIN items : items[i] \in RRS
    THEN CHOOSE i \in DOMAIN items :
            items[i] \in RRS /\ \A j \in 1..(i - 1) : items[j] \notin RRS
    ELSE 0

NoLine == [none |-> TRUE, addr1 |-> NoName, ttl |-> <<>>, rr |-> <<>>, addr2 |-> <<>>]

\* The loop of parse_line over the items before the RR type
RECURSIVE ParseHead(_, _, _, _)
ParseHead(items, i, rridx, ret) ==
    IF i >= rridx THEN ret
    ELSE IF items[i] = T_IN THEN ParseHead(items, i + 1, rridx, ret)
    ELSE IF ret.ttl = <<>> /\ is_ttl(items[i])
         THEN ParseHead(items, i + 1, rridx, [ret EXCEPT !.ttl = items[i]])
    ELSE IF ret.addr1 = NoName
         THEN ParseHead(items, i + 1, rridx, [ret EXCEPT !.addr1 = items[i]])
    ELSE NoLine

\* parse_line looking only at the item that stands right before the RR type
parse_line_nearest(items) ==
    IF items = <<>> THEN NoLine
    ELSE IF items[1] \in {T_RRSIG, T_NSEC} THEN NoLine
    ELSE LET rridx == FirstRR(items) IN
         IF rridx = 0 THEN NoLine
         ELSE ParseHead(items, IF rridx > 1 THEN rridx - 1 ELSE 1, rridx,
                  [none |-> FALSE, addr1 |-> NoName, ttl |-> <<>>,
                   rr |-> items[rridx],
                   addr2 |-> IF rridx = Len(items) THEN <<items[rridx]>>
                             ELSE SubSeq(items, rridx + 1, Len(items))])

\* zoneparser.parse_line on the items of a cleaned line.  addr2 is the rest
\* of the line after the RR type, kept as its items; when nothing follows
\* the type, split(maxsplit=...)[-1] is the type itself.
parse_line(items) ==
    IF items = <<>> THEN NoLine
    ELSE IF items[1] \in {T_RRSIG, T_NSEC} THEN NoLine
    ELSE LET rridx == FirstRR(items) IN
         IF rridx = 0 THEN NoLine
         ELSE ParseHead(items, 1, rridx,
                  [none |-> FALSE, addr1 |-> NoName, ttl |-> <<>>,
                   rr |-> items[rridx],
                   addr2 |-> IF rridx = Len(items) THEN <<items[rridx]>>
                             ELSE SubSeq(items, rridx + 1, Len(items))])

(***************************************************************************)
(* vdns.zoneparser.ZoneParser.  The state is self.dt and the locals of     *)
(* read(); err is the exception that ended read(), if any.                 *)
(***************************************************************************)
EmptyData ==
    [domain |-> <<>>, soa |-> None, a |-> <<>>, aaaa |-> <<>>, cname |-> <<>>,
     ns |-> <<>>, txt |-> <<>>, mx |-> <<>>, defttl |-> 0]

\* The state of read(fn, zone) before its loop
ReadStart(zone, is_reverse) ==
    [dt |-> EmptyData, is_reverse |-> is_reverse,
     lastname |-> NoName, domain |-> Strip(zone, "."), insoa |-> FALSE,
     soastr |-> <<>>, defttl |-> -1, soattl |-> None, err |-> NoError]

\* ZoneParser.add_entry
add_entry(st, r) ==
    IF r.rr = T_PTR THEN st
    ELSE IF r.rr = T_A
         THEN [st EXCEPT !.dt.a = Append(@, [addr1 |-> r.addr1, addr2 |-> r.addr2, ttl |-> r.ttl])]
    ELSE IF r.rr = T_AAAA
         THEN [st EXCEPT !.dt.aaaa = Append(@, [addr1 |-> r.addr1, addr2 |-> r.addr2, ttl |-> r.ttl])]
    ELSE IF r.rr = T_CNAME
         THEN [st EXCEPT !.dt.cname = Append(@, [addr1 |-> r.addr1, addr2 |-> r.addr2, ttl |-> r.ttl])]
    ELSE IF r.rr = T_NS
         THEN IF r.addr1 # NoName /\ r.addr1 # <<>>
              THEN st
              ELSE [st EXCEPT !.dt.ns = Append(@, [addr2 |-> r.addr2, ttl |-> r.ttl])]
    ELSE IF r.rr = T_TXT
         THEN [st EXCEPT !.dt.txt = Append(@, [addr1 |-> r.addr1, addr2 |-> r.addr2, ttl |-> r.ttl])]
    ELSE IF r.rr = T_MX
         THEN IF ~IsNumber(r.addr2[1]) THEN [st EXCEPT !.err = "ValueError"]
              ELSE IF Len(r.addr2) < 2 THEN [st EXCEPT !.err = "IndexError"]
              ELSE [st EXCEPT !.dt.mx = Append(@,
                       [addr1 |-> r.addr1, prio |-> ToInt(r.addr2[1]),
                        mx |-> Tail(r.addr2), ttl |-> r.ttl])]
    ELSE st

\* Every entry without a TTL item stored as inheriting
EntryTtl_inherit(st, ttltok) ==
    LET entryttl == IF ttltok # <<>> THEN Some(parse_ttl(ttltok)) ELSE None
    IN  IF entryttl # None /\ entryttl # st.soattl THEN entryttl ELSE None

\* The TTL an entry is stored with: read(), "Set TTL"
EntryTtl(st, ttltok) ==
    LET entryttl0 == IF ttltok # <<>> THEN Some(parse_ttl(ttltok)) ELSE None
        entryttl  == IF entryttl0 = None /\ st.soattl # Some(st.defttl)
                     THEN Some(st.defttl) ELSE entryttl0
    IN  IF entryttl # None /\ entryttl # st.soattl THEN entryttl ELSE None

\* The first exception of Data.SOA(contact=t[1], serial=int(t[2]), ...,
\* minimum=parse_ttl(t[6])), looking at field k onwards (counted from 1)
RECURSIVE SoaFieldError(_, _)
SoaFieldError(t, k) ==
    IF k > 7 THEN NoError
    ELSE IF Len(t) < k THEN "IndexError"
    ELSE IF k = 3 /\ ~IsNumber(t[k]) THEN "ValueError"
    ELSE IF k > 3 /\ ~ParsesAsTtl(t[k]) THEN "ValueError"
    ELSE SoaFieldError(t, k + 1)

\* The end of the SOA: the accumulated lines are parsed as one
ReadSoa(st, soastr) ==
    LET r   == parse_line(soastr)
        t   == SelectSeq([i \in DOMAIN r.addr2 |-> Without(Without(r.addr2[i], "("), ")")],
                         LAMBDA x : x # <<>>)
        ttl == IF r.ttl = <<>> THEN st.defttl ELSE parse_ttl(r.ttl)
    IN  IF r.none THEN [st EXCEPT !.insoa = FALSE, !.soastr = soastr, !.err = "Exception"]
        ELSE IF r.ttl # <<>> /\ ~ParsesAsTtl(r.ttl)
             THEN [st EXCEPT !.insoa = FALSE, !.soastr = soastr, !.err = "ValueError"]
        ELSE IF st.domain = <<>>
             THEN [st EXCEPT !.insoa = FALSE, !.soastr = soastr, !.soattl = Some(ttl),
                             !.err = "Exception"]
        ELSE IF SoaFieldError(t, 2) # NoError
             THEN [st EXCEPT !.insoa = FALSE, !.soastr = soastr, !.soattl = Some(ttl),
                             !.err = SoaFieldError(t, 2)]
        ELSE [st EXCEPT
                !.insoa = FALSE, !.soastr = soastr, !.soattl = Some(ttl),
                !.dt.domain = st.domain,
                !.dt.soa = [name |-> st.domain, contact |-> t[2], serial |-> ToInt(t[3]),
                            ttl |-> ttl, refresh |-> parse_ttl(t[4]),
                            retry |-> parse_ttl(t[5]), expire |-> parse_ttl(t[6]),
                            minimum |-> parse_ttl(t[7]), ns0 |-> t[1]]]

\* A record line
ReadRecord(st, r) ==
    LET lastname == IF st.lastname = NoName /\ (r.addr1 = NoName \/ r.addr1 = T_AT)
                    THEN NoName
                    ELSE IF r.addr1 # NoName THEN r.addr1 ELSE st.lastname
        st1 == [st EXCEPT !.lastname = lastname]
    IN  IF st.is_reverse THEN st1
        ELSE IF r.ttl # <<>> /\ ~ParsesAsTtl(r.ttl) THEN [st1 EXCEPT !.err = "ValueError"]
        ELSE add_entry(st1, [addr1 |-> lastname, rr |-> r.rr, addr2 |-> r.addr2,
                             ttl |-> EntryTtl(st, r.ttl)])

\* One iteration of the loop of read() on a cleaned line split in items
ReadStep(st, items) ==
    IF st.err # NoError THEN st
    ELSE IF items # <<>> /\ Prefix(items[1], 4) = T_TTL
         THEN \* line.startswith('$TTL')
              IF Len(items) < 2 THEN [st EXCEPT !.err = "IndexError"]
              ELSE IF ~ParsesAsTtl(items[2]) THEN [st EXCEPT !.err = "ValueError"]
              ELSE [st EXCEPT !.defttl = parse_ttl(items[2]),
                              !.dt.defttl = parse_ttl(items[2])]
    ELSE IF st.insoa
         THEN LET soastr == st.soastr \o items IN
              IF \E i \in DOMAIN soastr : Contains(soastr[i], <<")">>)
              THEN ReadSoa(st, soastr)
              ELSE [st EXCEPT !.soastr = soastr]
    ELSE LET r == parse_line(items) IN
         IF r.none THEN st
         ELSE IF r.rr = T_SOA
              THEN IF st.domain # <<>>
                   THEN IF r.addr1 \notin {T_AT, st.domain}
                        THEN [st EXCEPT !.err = "SystemExit"]
                        ELSE [st EXCEPT !.lastname = NoName, !.insoa = TRUE, !.soastr = items]
                   ELSE IF r.addr1 = NoName
                        THEN [st EXCEPT !.err = "SystemExit"]
                        ELSE [st EXCEPT !.domain = r.addr1, !.lastname = NoName,
                                        !.insoa = TRUE, !.soastr = items]
         ELSE ReadRecord(st, r)

\* read() over the lines of a file
RECURSIVE ReadLines(_, _)
ReadLines(st, lines) ==
    IF lines = <<>> THEN st ELSE ReadLines(ReadStep(st, Head(lines)), Tail(lines))

(***************************************************************************)
(* Reading a zone file line by line.                                       *)
(***************************************************************************)
MaxLines == 4

T_1H == <<"1", "H">>
T_1D == <<"1", "D">>
T_ns0 == <<"n", ".">>
T_contact == <<"c", ".">>
T_host == <<"h">>
T_ip == <<"1", ".", "2">>

\* $TTL directives
DirectiveLines == {<<T_TTL, t>> : t \in {T_1H, T_1D}}

\* The first line of an SOA, with and without a TTL
SoaOpenLines ==
    {<<T_AT, T_IN, T_SOA, T_ns0, T_contact, <<"(">> >>}
    \cup {<<T_AT, t, T_IN, T_SOA, T_ns0, T_contact, <<"(">> >> : t \in {T_1H, T_1D}}

\* The fields of an SOA and its closing parenthesis, and an empty line
SoaCloseLines == {<< <<"7">>, T_1H, T_1H, T_1D, T_1H, <<")">> >>, <<>>}

\* A records with and without an owner, with and without a TTL
RecordLines ==
    {owner \o ttl \o <<T_IN, T_A, T_ip>> :
        owner \in {<<>>, <<T_host>>}, ttl \in {<<>>, <<T_1H>>}}

ReadLine(items) ==
    /\ zp.err = NoError
    /\ readHist.n < MaxLines
    /\ zp' = ReadStep(zp, items)
    /\ readHist' = [n |-> readHist.n + 1, items |-> items, before |-> zp]
    /\ UNCHANGED notRead

ReadDirective == \E items \in DirectiveLines : ReadLine(items)
ReadSoaOpen   == \E items \in SoaOpenLines : ReadLine(items)
ReadSoaClose  == \E items \in SoaCloseLines : ReadLine(items)
ReadRecordLine == \E items \in RecordLines : ReadLine(items)

ReadIdle ==
    /\ zp = ReadStart(<<>>, FALSE)
    /\ readHist = [n |-> 0, items |-> <<>>, before |-> ReadStart(<<>>, FALSE)]

\* The last line read was an A record line without a TTL item, and read()
\* stored an entry for it
StoredWithoutTtl ==
    /\ readHist.n > 0
    /\ zp.err = NoError
    /\ ~readHist.before.insoa
    /\ readHist.items \in RecordLines
    /\ parse_line(readHist.items).ttl = <<>>
    /\ Len(zp.dt.a) = Len(readHist.before.dt.a) + 1

LastA == zp.dt.a[Len(zp.dt.a)]

\* C4 as stated: every record line read without an explicit TTL item is
\* stored with ttl absent, whatever the $TTL directive and the SOA TTL are.
C4_NoTokenStoredAbsent ==
    StoredWithoutTtl => LastA.ttl = None

\* C4: a record line read without an explicit TTL item is stored with ttl
\* absent exactly when the $TTL value in effect (-1 before any $TTL
\* directive) equals the SOA TTL in effect (none before the SOA; the $TTL
\* value of that moment for an SOA without a TTL item); otherwise it is
\* stored with the $TTL value in effect.
C4_NoTokenStoredByDefault ==
    StoredWithoutTtl =>
        LastA.ttl = IF readHist.before.soattl = Some(readHist.before.defttl)
                    THEN None
                    ELSE Some(readHist.before.defttl)

\* A line without a TTL item stored with the $TTL value of one day, under
\* an SOA of one hour
C4_Witness ==
    /\ StoredWithoutTtl
    /\ readHist.before.soattl = Some(Hour)
    /\ readHist.before.defttl = Day
    /\ LastA.ttl = Some(Day)

(***************************************************************************)
(* vdns.zone0.Zone0 and vdns.zone.Zone: rendering zone data to text.  A    *)
(* rendered line is held as the items split() finds on it; the comment     *)
(* after ";" (which repeats a value of the line in words) is left out, as  *)
(* cleanup_line removes it before a line is read.  The data holds no       *)
(* dnssec, sshfp, dkim, srv or subdomain records: those loops run over     *)
(* empty lists.                                                            *)
(***************************************************************************)
\* The units of fmttd, smallest first
TtlUnits ==
    << [n |-> 1, suffix |-> <<>>], [n |-> Minute, suffix |-> <<"M">>],
       [n |-> Hour, suffix |-> <<"H">>], [n |-> Day, suffix |-> <<"D">>],
       [n |-> Week, suffix |-> <<"W">>] >>

\* The last unit before the first one that does not divide ts
RECURSIVE BestUnit(_, _, _)
BestUnit(ts, i, ent) ==
    IF i > Len(TtlUnits) THEN ent
    ELSE IF ts % TtlUnits[i].n # 0 THEN ent
    ELSE BestUnit(ts, i + 1, TtlUnits[i])

\* Zone0.fmttd(td)[0], and vdns.common.zone_fmttd(td).value; ts = 0 raises
fmttd(ts) ==
    LET ent == BestUnit(ts, 1, TtlUnits[1]) IN IntToStr(ts \div ent.n) \o ent.suffix

\* A record line without its TTL column
fmtrecord_nottl(name, ttl, rr, data) ==
    (IF name = <<>> THEN <<>> ELSE <<name>>) \o <<T_IN, rr>> \o data

\* Zone0.fmtrecord and vdns.common.fmtrecord: the items of the line
fmtrecord(name, ttl, rr, data) ==
    (IF name = <<>> THEN <<>> ELSE <<name>>)
    \o (IF ttl = None THEN <<>> ELSE <<fmttd(ttl.v)>>)
    \o <<T_IN, rr>> \o data

\* needsdot
WithDot(st) == IF st[Len(st)] # "." THEN Append(st, ".") ELSE st

\* st.split('/')[0]
RECURSIVE BeforeSlash(_)
BeforeSlash(st) ==
    IF st = <<>> \/ st[1] = "/" THEN <<>> ELSE <<st[1]>> \o BeforeSlash(Tail(st))

TxtLimit == 255

\* Zone0.split_txt: the quoted strings of at most 255 characters
RECURSIVE split_txt(_)
split_txt(data) ==
    IF Len(data) > TxtLimit
    THEN << <<"\"">> \o SubSeq(data, 1, TxtLimit) \o <<"\"">> >>
         \o split_txt(SubSeq(data, TxtLimit + 1, Len(data)))
    ELSE << <<"\"">> \o data \o <<"\"">> >>

\* '; '.join(data0)
RECURSIVE JoinSemi(_)
JoinSemi(items) ==
    IF items = <<>> THEN <<>>
    ELSE IF Len(items) = 1 THEN items[1]
    ELSE items[1] \o <<";", " ">> \o JoinSemi(Tail(items))

\* The payload of a DKIM record, as the dkim branch of mkrecord joins it
dkim_data(rec) ==
    JoinSemi(<< <<"v", "=", "D", "K", "I", "M", "1">> >>
             \o (IF rec.g # None THEN << <<"g", "=">> \o rec.g.v >> ELSE <<>>)
             \o << <<"k", "=">> \o rec.k, <<"s", "=", "e", "m", "a", "i", "l">> >>
             \o (IF rec.t \/ ~rec.subdomains
                 THEN << <<"t", "=">> \o (IF rec.t
                                          THEN (IF rec.subdomains THEN <<"y">>
                                                ELSE <<"s", ":", "y">>)
                                          ELSE <<"s">>) >>
                 ELSE <<>>)
             \o (IF rec.h # None THEN << <<"h", "=">> \o rec.h.v >> ELSE <<>>)
             \o << <<"p", "=">> \o rec.key_pub >>)

\* Zone0.mkrecord for the types ns, mx, a, aaaa, cnames, txt, sshfp, dkim
\* and srv: the lines, or the exception of fmttd.  The data of a line are
\* its items; a quoted string is one item.
mkrecord(rr, rec) ==
    LET hostname0 ==
            CASE rr = "dkim" ->
                   rec.selector \o <<".", "_", "d", "o", "m", "a", "i", "n", "k", "e", "y">>
                   \o (IF rec.hostname # <<>> THEN <<".">> \o rec.hostname ELSE <<>>)
              [] rr = "srv" ->
                   <<"_">> \o rec.service \o <<".", "_">> \o rec.protocol
                   \o (IF rec.name # <<>> THEN <<".">> \o rec.name ELSE <<>>)
              [] OTHER -> rec.hostname
        hostname == IF hostname0 = <<".">> THEN <<>> ELSE hostname0
        rrname == CASE rr = "mx" -> T_MX [] rr = "ns" -> T_NS [] rr = "a" -> T_A
                    [] rr = "aaaa" -> T_AAAA
                    [] rr = "cnames" -> T_CNAME [] rr = "txt" -> T_TXT
                    [] rr = "sshfp" -> T_SSHFP [] rr = "dkim" -> T_TXT
                    [] rr = "srv" -> T_SRV
        data == CASE rr = "mx" ->
                       << IntToStr(rec.priority),
                          IF Count(rec.mx, ".") >= 2 THEN WithDot(rec.mx) ELSE rec.mx >>
                  [] rr = "ns" ->
                       << IF Count(rec.ns, ".") >= 2 THEN WithDot(rec.ns) ELSE rec.ns >>
                  [] rr \in {"a", "aaaa"} -> << BeforeSlash(rec.ip_str) >>
                  [] rr = "cnames" ->
                       << IF Count(rec.hostname0, ".") >= 2
                          THEN WithDot(rec.hostname0) ELSE rec.hostname0 >>
                  [] rr = "txt" -> << <<"\"">> \o rec.txt \o <<"\"">> >>
                  [] rr = "sshfp" ->
                       << IntToStr(rec.keytype), IntToStr(rec.hashtype), rec.fingerprint >>
                  [] rr = "dkim" -> split_txt(dkim_data(rec))
                  [] rr = "srv" ->
                       << IntToStr(rec.priority), IntToStr(rec.weight), IntToStr(rec.port),
                          IF Count(rec.target, ".") >= 1
                          THEN WithDot(rec.target) ELSE rec.target >>
    IN  IF rec.ttl # None /\ rec.ttl.v = 0
        THEN [err |-> "ValueError", lines |-> <<>>]
        ELSE [err |-> NoError, lines |-> <<fmtrecord(hostname, rec.ttl, rrname, data)>>]

\* Zone0.mkrecord_a_aaaa
mkrecord_a_aaaa(rec) ==
    IF rec.ip.version = 4 THEN mkrecord("a", rec) ELSE mkrecord("aaaa", rec)

\* The concatenation of rendered pieces; the first exception ends it
RECURSIVE Pieces(_)
Pieces(ps) ==
    IF ps = <<>> THEN [err |-> NoError, lines |-> <<>>]
    ELSE IF Head(ps).err # NoError THEN [err |-> Head(ps).err, lines |-> <<>>]
    ELSE LET rest == Pieces(Tail(ps)) IN
         IF rest.err # NoError THEN rest
         ELSE [err |-> NoError, lines |-> Head(ps).lines \o rest.lines]

Lines(ls) == [err |-> NoError, lines |-> ls]

\* mkrecord over the records of a list that pass a test
Records(rr, recs, Keep(_)) ==
    Pieces([i \in DOMAIN recs |->
               IF Keep(recs[i]) THEN mkrecord(rr, recs[i]) ELSE Lines(<<>>)])

\* Zone0.make_soa
make_soa(dt) ==
    IF \E v \in {dt.ttl, dt.refresh, dt.retry, dt.expire, dt.minimum} : v = 0
    THEN [err |-> "ValueError", lines |-> <<>>]
    ELSE Lines(<< <<T_ORIGIN, Append(dt.domain, ".")>>,
                  <<T_TTL, fmttd(dt.ttl)>>,
                  <<T_AT, fmttd(dt.ttl), T_IN, T_SOA,
                    Append(dt.ns0, "."), Append(dt.contact, "."), <<"(">> >>,
                  <<IntToStr(dt.serial)>>,
                  <<fmttd(dt.refresh)>>,
                  <<fmttd(dt.retry)>>,
                  <<fmttd(dt.expire)>>,
                  <<fmttd(dt.minimum)>>,
                  << <<")">> >>,
                  <<>> >>)

IsTop(rec) == rec.hostname = <<>> \/ rec.hostname = <<".">>

\* The records of a table; a zone without the table has none
TableOf(dt, typ) == IF typ \in DOMAIN dt THEN dt[typ] ELSE <<>>

\* Zone0.make_toplevel
make_toplevel(dt) ==
    Pieces(<< Records("ns", dt.ns, IsTop),
              Records("mx", dt.mx, IsTop),
              Records("txt", dt.txt, IsTop),
              Pieces([i \in DOMAIN dt.hosts |->
                         IF dt.hosts[i].hostname = <<>>
                         THEN mkrecord_a_aaaa(dt.hosts[i]) ELSE Lines(<<>>)]),
              Records("dkim", TableOf(dt, "dkim"), LAMBDA rec : rec.hostname = <<>>),
              Records("srv", TableOf(dt, "srv"), LAMBDA rec : rec.hostname = <<>>) >>)

\* The hostnames make_hosts starts with as done: those of the NS records
RECURSIVE Hostnames(_, _)
Hostnames(recs, done) ==
    IF recs = <<>> THEN done
    ELSE Hostnames(Tail(recs),
                   IF \E i \in DOMAIN done : done[i] = Head(recs).hostname
                   THEN done ELSE Append(done, Head(recs).hostname))

InSeq(x, sq) == \E i \in DOMAIN sq : sq[i] = x

\* The loop of make_hosts over the hosts, from host i on
RECURSIVE HostsFrom(_, _, _)
HostsFrom(dt, i, done) ==
    IF i > Len(dt.hosts) THEN [out |-> Lines(<<>>), done |-> done]
    ELSE LET rec      == dt.hosts[i]
             hostname == rec.hostname
         IN  IF hostname = <<>> THEN HostsFrom(dt, i + 1, done)
             ELSE IF InSeq(hostname, done)
                  THEN LET rest == HostsFrom(dt, i + 1, done) IN
                       [out |-> Pieces(<<mkrecord_a_aaaa(rec), rest.out>>),
                        done |-> rest.done]
             ELSE LET aliases == SelectSeq(dt.cnames, LAMBDA c : c.hostname0 = hostname)
                      done2   == Append(done, hostname)
                                   \o [k \in DOMAIN aliases |-> aliases[k].hostname]
                      rest    == HostsFrom(dt, i + 1, done2)
                      sshfp   == TableOf(dt, "sshfp")
                  IN  [out |-> Pieces(<<
                                 mkrecord_a_aaaa(rec),
                                 Pieces([k \in DOMAIN dt.txt |->
                                    IF dt.txt[k].hostname = hostname
                                    THEN mkrecord("txt", [dt.txt[k] EXCEPT !.hostname = <<>>])
                                    ELSE Lines(<<>>)]),
                                 Pieces([k \in DOMAIN sshfp |->
                                    IF sshfp[k].hostname = hostname
                                    THEN mkrecord("sshfp", [sshfp[k] EXCEPT !.hostname = <<>>])
                                    ELSE Lines(<<>>)]),
                                 Records("cnames", dt.cnames,
                                         LAMBDA c : c.hostname0 = hostname),
                                 Records("dkim", TableOf(dt, "dkim"),
                                         LAMBDA d : d.hostname = hostname),
                                 rest.out >>),
                       done |-> rest.done]

\* Zone0.make_hosts
make_hosts(dt) ==
    LET hosts == HostsFrom(dt, 1, Hostnames(dt.ns, <<>>))
        Rest(rec) == rec.hostname # <<>> /\ ~InSeq(rec.hostname, hosts.done)
    IN  Pieces(<< hosts.out,
                  Lines(<< <<>> >>), Records("cnames", dt.cnames, Rest),
                  Lines(<< <<>> >>), Records("txt", dt.txt, Rest) >>)

\* Zone.make; make_subzones is empty without subdomains
make(dt) ==
    Pieces(<< make_soa(dt), make_toplevel(dt), Lines(<< <<>> >>), make_hosts(dt) >>)

(***************************************************************************)
(* From what read() stored back to rows: ins_soa, ins_a, ins_cname,        *)
(* ins_txt, ins_ns, ins_mx.                                                *)
(***************************************************************************)
\* ' '.join(items)
RECURSIVE Join(_)
Join(items) ==
    IF items = <<>> THEN <<>>
    ELSE IF Len(items) = 1 THEN items[1]
    ELSE items[1] \o <<" ">> \o Join(Tail(items))

\* esinn(val, '.')
esinn(val) == IF val = NoName THEN <<>> ELSE Strip(val, ".")

ToRows(d) ==
    [domain   |-> Strip(d.soa.name, "."),
     serial   |-> d.soa.serial,
     contact  |-> Strip(d.soa.contact, "."),
     ns0      |-> Strip(d.soa.ns0, "."),
     ttl      |-> d.soa.ttl,
     refresh  |-> d.soa.refresh,
     retry    |-> d.soa.retry,
     expire   |-> d.soa.expire,
     minimum  |-> d.soa.minimum,
     ns     |-> [i \in DOMAIN d.ns |->
                   [hostname |-> <<>>, ns |-> Strip(Join(d.ns[i].addr2), "."),
                    ttl |-> d.ns[i].ttl]],
     mx     |-> [i \in DOMAIN d.mx |->
                   [hostname |-> esinn(d.mx[i].addr1), priority |-> d.mx[i].prio,
                    mx |-> Strip(Join(d.mx[i].mx), "."), ttl |-> d.mx[i].ttl]],
     txt    |-> [i \in DOMAIN d.txt |->
                   [hostname |-> esinn(d.txt[i].addr1),
                    txt |-> Strip(Join(d.txt[i].addr2), "\""), ttl |-> d.txt[i].ttl]],
     hosts  |-> [i \in DOMAIN d.a |->
                   [hostname |-> esinn(d.a[i].addr1), ip |-> [version |-> 4],
                    ip_str |-> Join(d.a[i].addr2), ttl |-> d.a[i].ttl]],
     cnames |-> [i \in DOMAIN d.cname |->
                   [hostname |-> esinn(d.cname[i].addr1),
                    hostname0 |-> Strip(Join(d.cname[i].addr2), "."),
                    ttl |-> d.cname[i].ttl]]]

(***************************************************************************)
(* The round trip of vdns.util.test: render, read back, render again.      *)
(***************************************************************************)
MaxRecords == 2

T_w == <<"w">>
T_m == <<"m">>
T_txt == <<"t">>
T_far == <<"x", ".", "y", ".", "z">>

SoaTtls == {Hour, Day}
RecTtls == {None, Some(Hour)}
OwnerNames == {<<>>, T_host}

\* The records a zone can hold, each with the table it belongs to
RecordUniverse ==
    {[typ |-> "hosts", rec |-> [hostname |-> h, ip |-> [version |-> 4], ip_str |-> T_ip,
                                ttl |-> t]] :
        h \in OwnerNames, t \in RecTtls \cup {Some(0)}}
    \cup {[typ |-> "txt", rec |-> [hostname |-> h, txt |-> T_txt, ttl |-> t]] :
        h \in OwnerNames, t \in RecTtls}
    \cup {[typ |-> "mx", rec |-> [hostname |-> h, priority |-> 10, mx |-> T_m, ttl |-> t]] :
        h \in OwnerNames, t \in RecTtls}
    \cup {[typ |-> "cnames", rec |-> [hostname |-> T_w, hostname0 |-> h0, ttl |-> t]] :
        h0 \in {T_host, T_far}, t \in RecTtls}
    \cup {[typ |-> "ns", rec |-> [hostname |-> <<>>, ns |-> T_far, ttl |-> t]] :
        t \in RecTtls}

RECURSIVE RecordLists(_)
RecordLists(n) ==
    IF n = 0 THEN {<<>>}
    ELSE RecordLists(n - 1) \cup
         {Append(l, r) : l \in {x \in RecordLists(n - 1) : Len(x) = n - 1},
                         r \in RecordUniverse}

\* The records of one table, in order
Table(recs, typ) ==
    LET sel == SelectSeq(recs, LAMBDA r : r.typ = typ) IN [i \in DOMAIN sel |-> sel[i].rec]

ZoneOf(soattl, recs) ==
    [domain |-> <<"b">>, serial |-> 7, contact |-> <<"c">>, ns0 |-> <<"n">>,
     ttl |-> soattl, refresh |-> Hour, retry |-> Hour, expire |-> Day, minimum |-> Hour,
     ns |-> Table(recs, "ns"), mx |-> Table(recs, "mx"), txt |-> Table(recs, "txt"),
     hosts |-> Table(recs, "hosts"), cnames |-> Table(recs, "cnames")]

NoOut == [err |-> NoError, lines |-> <<>>]
NoRecOut == [rr |-> "none", rec |-> [hostname |-> <<>>, ttl |-> None], out |-> NoOut]
NotRun == [stage |-> "data", out1 |-> NoOut, data2 |-> ZoneOf(Hour, <<>>), out2 |-> NoOut]

\* Zone(data).make()
Make ==
    /\ zoneRun.stage = "data"
    /\ LET out == make(zoneData) IN
       zoneRun' = [zoneRun EXCEPT !.stage = IF out.err = NoError THEN "made" ELSE "unrendered",
                                  !.out1 = out]
    /\ UNCHANGED <<zoneData, recOut>>
    /\ UNCHANGED notZone

\* ZoneParser.read() of the rendered text, the rows stored from it, and
\* their rendering
ReadBack ==
    /\ zoneRun.stage = "made"
    /\ LET parsed == ReadLines(ReadStart(zoneData.domain, FALSE), zoneRun.out1.lines) IN
       IF parsed.err # NoError \/ parsed.dt.soa = None
       THEN zoneRun' = [zoneRun EXCEPT !.stage = "unreadable"]
       ELSE LET data2 == ToRows(parsed.dt) IN
            zoneRun' = [zoneRun EXCEPT !.stage = "remade", !.data2 = data2,
                                       !.out2 = make(data2)]
    /\ UNCHANGED <<zoneData, recOut>>
    /\ UNCHANGED notZone

\* One call of mkrecord, on a record of the zone
MkRecord ==
    /\ zoneRun.stage = "data"
    /\ recOut.rr = "none"
    /\ \E typ \in {"ns", "mx", "txt", "hosts", "cnames"} :
         \E i \in DOMAIN zoneData[typ] :
            LET rr == IF typ = "hosts" THEN "a" ELSE typ IN
            recOut' = [rr |-> rr, rec |-> zoneData[typ][i],
                       out |-> mkrecord(rr, zoneData[typ][i])]
    /\ UNCHANGED <<zoneData, zoneRun>>
    /\ UNCHANGED notZone

ZoneIdle ==
    /\ zoneData = ZoneOf(Hour, <<>>)
    /\ zoneRun = NotRun
    /\ recOut = NoRecOut

(***************************************************************************)
(* Claims on rendering and the round trip.                                 *)
(***************************************************************************)
\* How often a record occurs in a list
Occurrences(recs, r) == Cardinality({i \in DOMAIN recs : recs[i] = r})

\* A record with its TTL made explicit: absent means the SOA TTL
Effective(rec, soattl) == [rec EXCEPT !.ttl = IF @ = None THEN Some(soattl) ELSE @]

\* The same records, in any order, with absent TTLs read as the SOA TTL
SameRecords(recs1, recs2, soattl) ==
    LET e1 == [i \in DOMAIN recs1 |-> Effective(recs1[i], soattl)]
        e2 == [i \in DOMAIN recs2 |-> Effective(recs2[i], soattl)]
    IN  /\ Len(e1) = Len(e2)
        /\ \A i \in DOMAIN e1 : Occurrences(e1, e1[i]) = Occurrences(e2, e1[i])

EquivalentData(d1, d2) ==
    /\ \A f \in {"domain", "serial", "contact", "ns0", "ttl", "refresh", "retry",
                 "expire", "minimum"} : d1[f] = d2[f]
    /\ \A f \in {"ns", "mx", "txt", "hosts", "cnames"} : SameRecords(d1[f], d2[f], d1.ttl)

\* C2: for any zone data that renders, reading the rendered text gives
\* equivalent zone data, and rendering that gives the same text again.
C2_RoundTrip ==
    /\ zoneRun.stage # "unreadable"
    /\ zoneRun.stage = "remade" =>
          /\ EquivalentData(zoneData, zoneRun.data2)
          /\ zoneRun.out2 = zoneRun.out1

\* The TTL item of a rendered record line: the item before IN, when it is
\* not the owner name of the record
TtlItem(items, hostname) ==
    IF \E k \in DOMAIN items : k > 1 /\ items[k] = T_IN /\ items[k - 1] # hostname
                               /\ \A j \in 1..(k - 1) : items[j] # T_IN
    THEN items[(CHOOSE k \in DOMAIN items : items[k] = T_IN
                                            /\ \A j \in 1..(k - 1) : items[j] # T_IN) - 1]
    ELSE <<>>

Rendered == recOut.rr # "none" /\ recOut.out.err = NoError

Chars == {"(", ")", "\"", ";", " ", "\n", "a"}

\* The characters in ('\t', '\n', '\r', ' ') that a text can hold
WhiteSpace == {" ", "\n"}

MaxTextLen == 4

RECURSIVE TextsOf(_)
TextsOf(n) ==
    IF n = 0 THEN {<<>>}
    ELSE LET shorter == TextsOf(n - 1) IN
         shorter \cup {Append(t, c) : t \in {s \in shorter : Len(s) = n - 1}, c \in Chars}

\* str.strip()
RECURSIVE StripWs(_)
StripWs(st) ==
    IF st = <<>> THEN st
    ELSE IF st[1] \in WhiteSpace THEN StripWs(Tail(st))
    ELSE IF st[Len(st)] \in WhiteSpace THEN StripWs(SubSeq(st, 1, Len(st) - 1))
    ELSE st

RECURSIVE SplitFrom(_, _, _)
SplitFrom(st, i, cur) ==
    IF i > Len(st) THEN (IF cur = <<>> THEN <<>> ELSE <<cur>>)
    ELSE IF st[i] = "\n" THEN <<cur>> \o SplitFrom(st, i + 1, <<>>)
    ELSE SplitFrom(st, i + 1, Append(cur, st[i]))

\* str.splitlines()
splitlines(st) == SplitFrom(st, 1, <<>>)

\* '\n'.join(lines)
RECURSIVE JoinLines(_)
JoinLines(lines) ==
    IF lines = <<>> THEN <<>>
    ELSE IF Len(lines) = 1 THEN lines[1]
    ELSE lines[1] \o <<"\n">> \o JoinLines(Tail(lines))

\* The loop of cleanup_line: the line up to its first semicolon outside quotes
RECURSIVE CutComment(_, _, _, _)
CutComment(line0, i, in_st, line) ==
    IF i > Len(line0) THEN line
    ELSE IF ~in_st /\ line0[i] = ";" THEN line
    ELSE CutComment(line0, i + 1, IF line0[i] = "\"" THEN ~in_st ELSE in_st,
                    Append(line, line0[i]))

cleanup_line(line0) ==
    StripWs(IF \E i \in DOMAIN line0 : line0[i] = ";"
            THEN CutComment(line0, 1, FALSE, <<>>)
            ELSE line0)

RECURSIVE CompactFrom(_, _, _, _, _)
CompactFrom(st, i, in_quotes, added_space, ret) ==
    IF i > Len(st) THEN ret
    ELSE LET x == st[i] IN
         IF x = "\"" THEN CompactFrom(st, i + 1, ~in_quotes, FALSE, Append(ret, x))
         ELSE IF in_quotes THEN CompactFrom(st, i + 1, in_quotes, added_space, Append(ret, x))
         ELSE IF x \in WhiteSpace
              THEN CompactFrom(st, i + 1, in_quotes, TRUE,
                               IF added_space THEN ret ELSE Append(ret, " "))
         ELSE CompactFrom(st, i + 1, in_quotes, FALSE, Append(ret, x))

compact_spaces(st) == CompactFrom(StripWs(st), 1, FALSE, FALSE, <<>>)

\* What a call gives: the string it returns, or the exception of common.abort
Returns(out) == [err |-> NoError, out |-> out]
abort == [err |-> "AbortError", out |-> <<>>]

RECURSIVE MergeQuotesFrom(_, _, _, _)
MergeQuotesFrom(st, i, in_quotes, ret) ==
    IF i > Len(st) THEN (IF in_quotes THEN abort ELSE Returns(ret))
    ELSE LET x == st[i]
             n == Len(ret)
         IN  IF x = "\"" /\ ~in_quotes /\ n >= 2 /\ SubSeq(ret, n - 1, n) = <<"\"", " ">>
             THEN MergeQuotesFrom(st, i + 1, TRUE, SubSeq(ret, 1, n - 2))
             ELSE MergeQuotesFrom(st, i + 1, IF x = "\"" THEN ~in_quotes ELSE in_quotes,
                                  Append(ret, x))

merge_quotes(st) == MergeQuotesFrom(compact_spaces(st), 1, FALSE, <<>>)

\* The loop of merge_multiline over the joined lines
RECURSIVE MergeFrom(_, _, _, _, _)
MergeFrom(line, i, in_quotes, in_parentheses, ret) ==
    IF i > Len(line) THEN Returns(ret)
    ELSE LET x == line[i] IN
         IF x = "\n"
         THEN IF in_quotes THEN abort
              ELSE MergeFrom(line, i + 1, in_quotes, in_parentheses, Append(ret, " "))
         ELSE IF in_quotes /\ x # "\""
              THEN MergeFrom(line, i + 1, in_quotes, in_parentheses, Append(ret, x))
         ELSE IF x = "\""
              THEN MergeFrom(line, i + 1, ~in_quotes, in_parentheses, Append(ret, x))
         ELSE IF x = "("
              THEN IF in_parentheses THEN abort
                   ELSE MergeFrom(line, i + 1, in_quotes, TRUE, ret)
         ELSE IF x = ")"
              THEN IF ~in_parentheses THEN abort
                   ELSE MergeFrom(line, i + 1, in_quotes, FALSE, ret)
         ELSE MergeFrom(line, i + 1, in_quotes, in_parentheses, Append(ret, x))

\* The loop with every parenthesis taken as structure, quoted or not
RECURSIVE MergeFrom_unquoted(_, _, _, _, _)
MergeFrom_unquoted(line, i, in_quotes, in_parentheses, ret) ==
    IF i > Len(line) THEN Returns(ret)
    ELSE LET x == line[i] IN
         IF x = "\n"
         THEN IF in_quotes THEN abort
              ELSE MergeFrom_unquoted(line, i + 1, in_quotes, in_parentheses, Append(ret, " "))
         ELSE IF x = "\""
              THEN MergeFrom_unquoted(line, i + 1, ~in_quotes, in_parentheses, Append(ret, x))
         ELSE IF x = "("
              THEN IF in_parentheses THEN abort
                   ELSE MergeFrom_unquoted(line, i + 1, in_quotes, TRUE, ret)
         ELSE IF x = ")"
              THEN IF ~in_parentheses THEN abort
                   ELSE MergeFrom_unquoted(line, i + 1, in_quotes, FALSE, ret)
         ELSE MergeFrom_unquoted(line, i + 1, in_quotes, in_parentheses, Append(ret, x))

merge_multiline_unquoted(lines0, with_merge_quotes) ==
    LET lines == [i \in DOMAIN lines0 |-> compact_spaces(cleanup_line(lines0[i]))]
        ret   == MergeFrom_unquoted(JoinLines(lines), 1, FALSE, FALSE, <<>>)
    IN  IF ret.err # NoError THEN ret
        ELSE IF with_merge_quotes THEN merge_quotes(ret.out)
        ELSE Returns(compact_spaces(ret.out))

merge_multiline(lines0, with_merge_quotes) ==
    LET lines == [i \in DOMAIN lines0 |-> compact_spaces(cleanup_line(lines0[i]))]
        ret   == MergeFrom(JoinLines(lines), 1, FALSE, FALSE, <<>>)
    IN  IF ret.err # NoError THEN ret
        ELSE IF with_merge_quotes THEN merge_quotes(ret.out)
        ELSE Returns(compact_spaces(ret.out))

RECURSIVE LineEndsFrom(_, _, _, _)
LineEndsFrom(line, i, in_quotes, in_parentheses) ==
    IF i > Len(line)
    THEN [err |-> IF in_quotes THEN "AbortError" ELSE NoError, val |-> in_parentheses]
    ELSE LET x == line[i] IN
         IF in_quotes /\ x # "\"" THEN LineEndsFrom(line, i + 1, in_quotes, in_parentheses)
         ELSE IF x = "\"" THEN LineEndsFrom(line, i + 1, ~in_quotes, in_parentheses)
         ELSE IF in_parentheses
              THEN IF x = ")" THEN LineEndsFrom(line, i + 1, in_quotes, FALSE)
                   ELSE IF x = "(" THEN [err |-> "AbortError", val |-> in_parentheses]
                   ELSE LineEndsFrom(line, i + 1, in_quotes, in_parentheses)
         ELSE IF x = "(" THEN LineEndsFrom(line, i + 1, in_quotes, TRUE)
              ELSE IF x = ")" THEN [err |-> "AbortError", val |-> in_parentheses]
              ELSE LineEndsFrom(line, i + 1, in_quotes, in_parentheses)

line_ends_in_parentheses(line, in_parentheses) == LineEndsFrom(line, 1, FALSE, in_parentheses)

NotMerged == [err |-> "notcalled", out |-> <<>>]

MergeStart(text, with_merge_quotes) ==
    [text |-> text, merge_quotes |-> with_merge_quotes, stage |-> "text",
     result |-> NotMerged, n |-> 0, in_parentheses |-> FALSE, raised |-> NoError]

\* merge_multiline(text.splitlines(), merge_quotes)
MergeMultiline ==
    /\ mg.stage = "text"
    /\ mg' = [mg EXCEPT !.stage = "merged",
                        !.result = merge_multiline(splitlines(mg.text), mg.merge_quotes)]
    /\ UNCHANGED notMerge

\* line_ends_in_parentheses on the next line of the text, cleaned of its
\* comment, in_parentheses being what the call on the line before returned
LineEndsInParentheses ==
    /\ mg.stage \in {"text", "lines"}
    /\ mg.raised = NoError
    /\ mg.n < Len(splitlines(mg.text))
    /\ LET line == cleanup_line(splitlines(mg.text)[mg.n + 1])
           r    == line_ends_in_parentheses(line, mg.in_parentheses)
       IN  mg' = [mg EXCEPT !.stage = "lines", !.n = @ + 1,
                            !.in_parentheses = r.val, !.raised = r.err]
    /\ UNCHANGED notMerge

MergeIdle == mg = MergeStart(<<>>, FALSE)

(***************************************************************************)
(* Claims on merging continuation lines.                                   *)
(***************************************************************************)
\* Reading a text with its comments left out and what is between quotes
\* taken as data: is a parenthesis or a quote still open at its end
RECURSIVE OpenAtEnd(_, _, _, _, _)
OpenAtEnd(st, i, in_quotes, in_comment, in_parentheses) ==
    IF i > Len(st) THEN in_quotes \/ in_parentheses
    ELSE LET x == st[i] IN
         IF x = "\n" THEN OpenAtEnd(st, i + 1, in_quotes, FALSE, in_parentheses)
         ELSE IF in_comment THEN OpenAtEnd(st, i + 1, in_quotes, in_comment, in_parentheses)
         ELSE IF x = "\"" THEN OpenAtEnd(st, i + 1, ~in_quotes, in_comment, in_parentheses)
         ELSE IF in_quotes THEN OpenAtEnd(st, i + 1, in_quotes, in_comment, in_parentheses)
         ELSE IF x = ";" THEN OpenAtEnd(st, i + 1, in_quotes, TRUE, in_parentheses)
         ELSE IF x = "(" THEN OpenAtEnd(st, i + 1, in_quotes, in_comment, TRUE)
         ELSE IF x = ")" THEN OpenAtEnd(st, i + 1, in_quotes, in_comment, FALSE)
         ELSE OpenAtEnd(st, i + 1, in_quotes, in_comment, in_parentheses)

Unterminated(text) == OpenAtEnd(text, 1, FALSE, FALSE, FALSE)

\* C10: a text in which an opening parenthesis or a double quote is never
\* closed by its end makes merge_multiline raise AbortError, so that no
\* merged line, and no record, comes out of the unterminated construct.
C10_UnterminatedAborts ==
    (mg.stage = "merged" /\ Unterminated(mg.text)) => mg.result.err = "AbortError"

(***************************************************************************)
(* Single calls.  fnCall holds the arguments of a call and what it gave.   *)
(***************************************************************************)
CallIdle == fnCall = [op |-> "none"]

(***************************************************************************)
(* Glue records: the subdomain loop of ZoneMaker.get_zone_data for one     *)
(* subdomain that has data, and Zone0.make_subzones on what it collected.  *)
(***************************************************************************)
\* st[:-n] for n > 0
DropLast(st, n) == IF n >= Len(st) THEN <<>> ELSE SubSeq(st, 1, Len(st) - n)

\* st.endswith(suffix)
EndsWith(st, suffix) ==
    /\ Len(suffix) <= Len(st)
    /\ SubSeq(st, Len(st) - Len(suffix) + 1, Len(st)) = suffix

RECURSIVE Flatten(_)
Flatten(seqs) == IF seqs = <<>> THEN <<>> ELSE Head(seqs) \o Flatten(Tail(seqs))

\* The loop over dt['hosts'] for one NS record of the subdomain
RECURSIVE GlueFrom_inside(_, _, _, _)
GlueFrom_inside(domain, ns, hosts, j) ==
    IF j > Len(hosts) THEN <<>>
    ELSE LET host  == hosts[j]
             host2 == host.hostname \o <<".">> \o host.domain
         IN  << [host EXCEPT !.domain = domain,
                             !.hostname = DropLast(host2, Len(domain) + 1)] >>
             \o GlueFrom_inside(domain, ns, hosts, j + 1)

RECURSIVE GlueFrom(_, _, _, _)
GlueFrom(domain, ns, hosts, j) ==
    IF j > Len(hosts) THEN <<>>
    ELSE LET host  == hosts[j]
             host2 == host.hostname \o <<".">> \o host.domain
         IN  (IF ns.ns # host2 THEN <<>>
              ELSE << [host EXCEPT !.domain = domain,
                                   !.hostname = DropLast(host2, Len(domain) + 1)] >>)
             \o GlueFrom(domain, ns, hosts, j + 1)

\* subdata of get_zone_data(domain) for the subdomain subname whose own
\* get_zone_data gave dt
SubData(domain, subname, dt) ==
    LET h    == DropLast(subname, Len(domain) + 1)
        ksk  == SelectSeq(dt.dnssec, LAMBDA ds : ds.ksk)
        nss  == [i \in DOMAIN dt.ns |-> [dt.ns[i] EXCEPT !.hostname = h]]
    IN  [h    |-> h,
         ns   |-> nss,
         ds   |-> [i \in DOMAIN ksk |-> [ksk[i] EXCEPT !.hostname = h]],
         glue |-> Flatten([i \in DOMAIN nss |->
                     IF ~EndsWith(nss[i].ns, <<".">> \o nss[i].domain) THEN <<>>
                     ELSE GlueFrom(domain, nss[i], dt.hosts, 1)])]

\* Zone0.make_subzones for a zone with one subdomain without DS records;
\* an empty line and a comment line are both a line without items
make_subzones(sub) ==
    LET recs == Pieces([i \in DOMAIN sub.ns |-> mkrecord("ns", sub.ns[i])])
        glue == Pieces([i \in DOMAIN sub.glue |-> mkrecord_a_aaaa(sub.glue[i])])
    IN  Pieces(<< Lines(<< <<>> >>), recs,
                  IF glue.err = NoError /\ glue.lines = <<>> THEN glue
                  ELSE Pieces(<<Lines(<< <<>>, <<>> >>), glue>>) >>)

MaxGlueNs == 2
MaxGlueHosts == 2

T_b == <<"b">>
T_sb == <<"s", ".", "b">>
T_ip6 == <<"1", ":", ":", "2">>

\* NS targets: two names inside the subdomain, the subdomain itself, a name
\* that ends in the subdomain's characters without being inside it, and a
\* name in another domain
GlueTargets ==
    { <<"n", ".", "s", ".", "b">>, <<"m", ".", "s", ".", "b">>, T_sb,
      <<"n", "s", ".", "b">>, <<"n", ".", "c">> }

GlueHosts ==
    {[hostname |-> h, domain |-> T_sb, ip |-> [version |-> v.version],
      ip_str |-> v.ip_str, ttl |-> None] :
        h \in {<<"n">>, <<"m">>, <<>>},
        v \in {[version |-> 4, ip_str |-> T_ip], [version |-> 6, ip_str |-> T_ip6]}}

RECURSIVE ListsOf(_, _)
ListsOf(S, n) ==
    IF n = 0 THEN {<<>>}
    ELSE LET shorter == ListsOf(S, n - 1) IN
         shorter \cup {Append(l, x) : l \in {k \in shorter : Len(k) = n - 1}, x \in S}

\* get_zone_data('b') reaches the subdomain 's.b', whose data are dt
GlueStart(dt) ==
    [op |-> "glue", domain |-> T_b, subname |-> T_sb, dt |-> dt,
     stage |-> "data", sub |-> [h |-> <<>>, ns |-> <<>>, ds |-> <<>>, glue |-> <<>>],
     out |-> NoOut]

GetSubdomainData ==
    /\ fnCall.op = "glue"
    /\ fnCall.stage = "data"
    /\ fnCall' = [fnCall EXCEPT !.stage = "collected",
                                !.sub = SubData(fnCall.domain, fnCall.subname, fnCall.dt)]
    /\ UNCHANGED notCall

MakeSubzones ==
    /\ fnCall.op = "glue"
    /\ fnCall.stage = "collected"
    /\ fnCall' = [fnCall EXCEPT !.stage = "rendered", !.out = make_subzones(fnCall.sub)]
    /\ UNCHANGED notCall

(***************************************************************************)
(* Claims on glue records.                                                 *)
(***************************************************************************)
\* The address lines of the rendered subdomain section, as owner, type, address
GlueLines ==
    {<<l[1], l[3], l[4]>> :
        l \in {fnCall.out.lines[i] : i \in {k \in DOMAIN fnCall.out.lines :
                  /\ Len(fnCall.out.lines[k]) = 4
                  /\ fnCall.out.lines[k][3] \in {T_A, T_AAAA}}}}

\* The hosts of the subdomain that an NS target names by its full name
NamedHosts ==
    {fnCall.dt.hosts[j] : j \in {k \in DOMAIN fnCall.dt.hosts :
        \E i \in DOMAIN fnCall.dt.ns :
            fnCall.dt.ns[i].ns = fnCall.dt.hosts[k].hostname \o <<".">> \o fnCall.subname}}

\* C11: the glue address lines of the parent zone are those of the hosts of
\* the subdomain whose hostname.domain is, character by character, the
\* target of an NS record of the subdomain, under the owner name
\* hostname.<subdomain label>; a target outside the subdomain, or inside it
\* without a host record, gives no glue line.
C11_GlueIffExactMatch ==
    (fnCall.op = "glue" /\ fnCall.stage = "rendered") =>
        GlueLines = {<<host.hostname \o <<".">> \o DropLast(fnCall.subname, Len(fnCall.domain) + 1),
                       IF host.ip.version = 4 THEN T_A ELSE T_AAAA,
                       host.ip_str>> : host \in NamedHosts}

\* A run with a glue line for one NS target and none for another, which is
\* inside the subdomain without a host record or outside the subdomain
C11_Witness ==
    /\ fnCall.op = "glue"
    /\ fnCall.stage = "rendered"
    /\ GlueLines # {}
    /\ \E i \in DOMAIN fnCall.dt.ns :
          /\ fnCall.dt.ns[i].ns \in {<<"m", ".", "s", ".", "b">>, <<"n", ".", "c">>}
          /\ \A host \in NamedHosts :
                fnCall.dt.ns[i].ns # host.hostname \o <<".">> \o fnCall.subname

(***************************************************************************)
(* Reverse zones: common.reverse_name, Zone0.make_ptr_name, the ptr branch *)
(* of Zone0.mkrecord, Zone0.make_reverse and ZoneRev.make.  An address is  *)
(* its version and its packed bytes; the text of an IPv4 address is its    *)
(* dotted decimal form, and the ipaddress library reads the text of an     *)
(* address back to the same bytes.                                         *)
(***************************************************************************)
HexDigit(n) ==
    <<"0", "1", "2", "3", "4", "5", "6", "7", "8", "9", "a", "b", "c", "d", "e", "f">>[n + 1]

\* lst.reverse()
ReverseSeq(sq) == [i \in DOMAIN sq |-> sq[Len(sq) + 1 - i]]

\* '.'.join(labels)
RECURSIVE JoinDots(_)
JoinDots(labels) ==
    IF labels = <<>> THEN <<>>
    ELSE IF Len(labels) = 1 THEN labels[1]
    ELSE labels[1] \o <<".">> \o JoinDots(Tail(labels))

\* st.split('.')
RECURSIVE SplitDotsFrom(_, _, _)
SplitDotsFrom(st, i, cur) ==
    IF i > Len(st) THEN <<cur>>
    ELSE IF st[i] = "." THEN <<cur>> \o SplitDotsFrom(st, i + 1, <<>>)
    ELSE SplitDotsFrom(st, i + 1, Append(cur, st[i]))

SplitDots(st) == SplitDotsFrom(st, 1, <<>>)

T_inaddr == <<"i", "n", "-", "a", "d", "d", "r", ".", "a", "r", "p", "a">>
T_ip6arpa == <<"i", "p", "6", ".", "a", "r", "p", "a">>

\* str(ip) of an IPv4 address
DottedDecimal(packed) == JoinDots([i \in DOMAIN packed |-> IntToStr(packed[i])])

\* The hexadecimal digits of an IPv6 address, the first one first
Nibbles(packed) ==
    Flatten([i \in DOMAIN packed |->
                << <<HexDigit(packed[i] \div 16)>>, <<HexDigit(packed[i] % 16)>> >>])

\* ipaddress: ip.reverse_pointer
reverse_pointer(ip) ==
    IF ip.version = 4
    THEN JoinDots(ReverseSeq([i \in DOMAIN ip.packed |-> IntToStr(ip.packed[i])]))
         \o <<".">> \o T_inaddr
    ELSE JoinDots(ReverseSeq(Nibbles(ip.packed))) \o <<".">> \o T_ip6arpa

\* common.reverse_name of the network with this network address and prefix
reverse_name(net) ==
    LET octet_size   == IF net.version = 4 THEN 8 ELSE 4
        octet_number == IF net.version = 4 THEN 4 ELSE 32
        num          == net.prefixlen \div octet_size
        octets       == SplitDots(reverse_pointer(net))
    IN  IF net.prefixlen % octet_size # 0 THEN abort
        ELSE Returns(JoinDots(SubSeq(octets, octet_number - num + 1, Len(octets))))

\* st[-n:]
LastChars(st, n) ==
    IF n = 0 \/ n >= Len(st) THEN st ELSE SubSeq(st, Len(st) - n + 1, Len(st))

\* Zone0.make_ptr_name in a zone of this name
make_ptr_name(domain, rec) ==
    LET ret == CASE rec.family = 4 ->
                      JoinDots(ReverseSeq(SplitDots(rec.ip_str))) \o <<".">> \o T_inaddr
                 [] rec.family = 6 ->
                      reverse_name([version |-> 6, packed |-> rec.ip.packed,
                                    prefixlen |-> 128]).out
                 [] OTHER -> <<>>
    IN  IF LastChars(ret, Len(domain)) = domain
        THEN DropLast(ret, Len(domain) + 1)
        ELSE ret

\* PTR.cooked_hostname of vdns.rr: the owner name, or the failed assertion
cooked_hostname(net_domain, ip) ==
    LET rev == reverse_pointer(ip) IN
    IF ~EndsWith(rev, <<".">> \o net_domain)
    THEN [err |-> "AssertionError", out |-> <<>>]
    ELSE Returns(DropLast(rev, Len(net_domain) + 1))

\* Zone0.mkrecord for the type ptr
mkrecord_ptr(domain, rec) ==
    LET data     == WithDot(rec.hostname \o <<".">> \o rec.domain \o <<".">>)
        hostname == make_ptr_name(domain, rec)
    IN  IF rec.ttl # None /\ rec.ttl.v = 0
        THEN [err |-> "ValueError", lines |-> <<>>]
        ELSE Lines(<<fmtrecord(IF hostname = <<".">> THEN <<>> ELSE hostname,
                               rec.ttl, T_PTR, <<data>>)>>)

\* The packed address alone as the key
sort_key_packed(ip) ==
    ip.packed

\* b'%d-%s' % (ip.version, ip.packed), as byte values
sort_key(ip) ==
    <<48 + ip.version, 45>> \o ip.packed

\* The order of Python on bytes
RECURSIVE BytesBefore(_, _)
BytesBefore(a, b) ==
    IF b = <<>> THEN FALSE
    ELSE IF a = <<>> THEN TRUE
    ELSE IF a[1] # b[1] THEN a[1] < b[1]
    ELSE BytesBefore(Tail(a), Tail(b))

\* sorted(keys)
RECURSIVE SortedKeys(_)
SortedKeys(keys) ==
    IF keys = {} THEN <<>>
    ELSE LET first == CHOOSE k \in keys : \A o \in keys \ {k} : BytesBefore(k, o)
         IN  <<first>> \o SortedKeys(keys \ {first})

\* Zone0.make_reverse
make_reverse(dt) ==
    LET marked == SelectSeq(dt.hosts, LAMBDA x : x.reverse)
        keys   == {sort_key(marked[i].ip) : i \in DOMAIN marked}
        hosts  == [k \in keys |->
                     marked[CHOOSE i \in DOMAIN marked :
                               /\ sort_key(marked[i].ip) = k
                               /\ \A j \in DOMAIN marked :
                                     sort_key(marked[j].ip) = k => j <= i]]
        order  == SortedKeys(keys)
    IN  Pieces([i \in DOMAIN order |-> mkrecord_ptr(dt.domain, hosts[order[i]])])

\* ZoneRev.make
ZoneRev_make(dt) ==
    Pieces(<< make_soa(dt), make_toplevel(dt), Lines(<< <<>> >>), make_reverse(dt) >>)

MaxRevHosts == 3

\* 10.1.1.2, 10.1.1.10, 2001:db8::1 and a00::1
Ip4(a, b, c, d) == [version |-> 4, packed |-> <<a, b, c, d>>]
Ip6(a, b, c, d, last) ==
    [version |-> 6, packed |-> <<a, b, c, d, 0, 0, 0, 0, 0, 0, 0, 0, 0, 0, 0, last>>]

RevAddresses ==
    { [ip |-> Ip4(10, 1, 1, 2), ip_str |-> DottedDecimal(<<10, 1, 1, 2>>)],
      [ip |-> Ip4(10, 1, 1, 10), ip_str |-> DottedDecimal(<<10, 1, 1, 10>>)],
      [ip |-> Ip6(32, 1, 13, 184, 1),
       ip_str |-> <<"2", "0", "0", "1", ":", "d", "b", "8", ":", ":", "1">>],
      [ip |-> Ip6(10, 0, 0, 0, 1), ip_str |-> <<"a", "0", "0", ":", ":", "1">>] }

RevHosts ==
    {[hostname |-> h, domain |-> T_b, ip |-> a.ip, family |-> a.ip.version,
      ip_str |-> a.ip_str, reverse |-> r, ttl |-> None] :
        h \in {<<>>, T_host}, a \in RevAddresses, r \in BOOLEAN}

\* The networks: 10.1.0.0/16, 10.0.0.0/8, 0.0.0.0/8, 11.0.0.0/8, 2001:db8::/32
RevNets ==
    { [version |-> 4, packed |-> <<10, 1, 0, 0>>, prefixlen |-> 16],
      [version |-> 4, packed |-> <<10, 0, 0, 0>>, prefixlen |-> 8],
      [version |-> 4, packed |-> <<0, 0, 0, 0>>, prefixlen |-> 8],
      [version |-> 4, packed |-> <<11, 0, 0, 0>>, prefixlen |-> 8],
      [version |-> 6, packed |-> Ip6(32, 1, 13, 184, 0).packed, prefixlen |-> 32] }

ZoneNet == [version |-> 4, packed |-> <<10, 1, 0, 0>>, prefixlen |-> 16]

\* ip << net of get_net_hosts, for a prefix of whole bytes
InNet(ip, net) ==
    /\ ip.version = net.version
    /\ SubSeq(ip.packed, 1, net.prefixlen \div 8) = SubSeq(net.packed, 1, net.prefixlen \div 8)

\* The data of the reverse zone of a network, with one NS record
RevZoneOf(net, hosts) ==
    [ZoneOf(Hour, <<>>) EXCEPT
        !.domain = reverse_name(net).out,
        !.ns = << [hostname |-> <<>>, ns |-> T_far, ttl |-> None] >>,
        !.hosts = hosts]

RevStart(net, hosts) ==
    [op |-> "rev", net |-> net, dt |-> RevZoneOf(net, hosts), stage |-> "data",
     out |-> NoOut]

PtrStart(net, rec) ==
    [op |-> "ptr", net |-> net, domain |-> reverse_name(net).out, rec |-> rec,
     stage |-> "data", out |-> NoOut, cooked |-> Returns(<<>>)]

\* ZoneRev(data).make()
MakeReverseZone ==
    /\ fnCall.op = "rev"
    /\ fnCall.stage = "data"
    /\ fnCall' = [fnCall EXCEPT !.stage = "made", !.out = ZoneRev_make(fnCall.dt)]
    /\ UNCHANGED notCall

\* mkrecord('ptr', rec) in the zone of a network, and the owner name that
\* vdns.rr.PTR gives the same record
MkRecordPtr ==
    /\ fnCall.op = "ptr"
    /\ fnCall.stage = "data"
    /\ fnCall' = [fnCall EXCEPT !.stage = "made",
                                !.out = mkrecord_ptr(fnCall.domain, fnCall.rec),
                                !.cooked = cooked_hostname(fnCall.domain, fnCall.rec.ip)]
    /\ UNCHANGED notCall

(***************************************************************************)
(* Claims on reverse zones.                                                *)
(***************************************************************************)
RevMade == fnCall.op = "rev" /\ fnCall.stage = "made" /\ fnCall.out.err = NoError

\* The type of a record line: the item after IN
RRType(l) ==
    l[(CHOOSE k \in DOMAIN l : l[k] = T_IN /\ \A j \in 1..(k - 1) : l[j] # T_IN) + 1]

IsRecordLine(l) == \E k \in DOMAIN l : l[k] = T_IN /\ k < Len(l)

\* The PTR lines of the rendered zone, in their order
PtrLines ==
    SelectSeq(fnCall.out.lines, LAMBDA l : IsRecordLine(l) /\ RRType(l) = T_PTR)

\* The addresses whose reverse pointer is the owner name of a PTR line,
\* written in full or relative to the zone
PtrAddresses(l) ==
    {a.ip : a \in {x \in RevAddresses :
        reverse_pointer(x.ip) \in {l[1], l[1] \o <<".">> \o fnCall.dt.domain}}}

\* Version first, then the address as a number: the first byte that
\* differs decides
Precedes(a, b) ==
    \/ a.version < b.version
    \/ /\ a.version = b.version
       /\ \E k \in DOMAIN a.packed :
             /\ a.packed[k] < b.packed[k]
             /\ \A j \in 1..(k - 1) : a.packed[j] = b.packed[j]

\* C12: the PTR lines of a rendered reverse zone are those of the addresses
\* of the hosts marked reverse, one line per address, every IPv4 address
\* before every IPv6 address and the addresses of one version ascending as
\* numbers, whatever the order of the host records.
C12_PtrOrdered ==
    RevMade =>
        /\ \A i \in DOMAIN PtrLines : Cardinality(PtrAddresses(PtrLines[i])) = 1
        /\ \A i, j \in DOMAIN PtrLines :
              i < j => \A a \in PtrAddresses(PtrLines[i]), b \in PtrAddresses(PtrLines[j]) :
                          Precedes(a, b)
        /\ UNION {PtrAddresses(PtrLines[i]) : i \in DOMAIN PtrLines}
              = {fnCall.dt.hosts[i].ip : i \in {k \in DOMAIN fnCall.dt.hosts :
                                                  fnCall.dt.hosts[k].reverse}}

\* A reverse zone of three PTR lines whose hosts were given with an IPv6
\* address first and the two IPv4 addresses in descending order
C12_Witness ==
    /\ RevMade
    /\ Len(PtrLines) = 3
    /\ Len(fnCall.dt.hosts) = 3
    /\ fnCall.dt.hosts[1].ip.version = 6
    /\ fnCall.dt.hosts[2].ip = Ip4(10, 1, 1, 10)
    /\ fnCall.dt.hosts[3].ip = Ip4(10, 1, 1, 2)
    /\ PtrAddresses(PtrLines[1]) = {Ip4(10, 1, 1, 2)}
    /\ PtrAddresses(PtrLines[3]) = {fnCall.dt.hosts[1].ip}

\* The lines of the SOA block that make_soa renders, the empty line included
SoaBlockLen == 10

\* C13: after the SOA block, the rendered text of a reverse zone whose hosts
\* all belong to its network holds NS and PTR records only.
C13_OnlyNsAndPtr ==
    (RevMade /\ \A i \in DOMAIN fnCall.dt.hosts : InNet(fnCall.dt.hosts[i].ip, fnCall.net)) =>
        \A k \in DOMAIN fnCall.out.lines :
            (k > SoaBlockLen /\ IsRecordLine(fnCall.out.lines[k]))
                => RRType(fnCall.out.lines[k]) \in {T_NS, T_PTR}

PtrMade == fnCall.op = "ptr" /\ fnCall.stage = "made"

\* C19: rendering the PTR record of an address whose reverse pointer does
\* not end with a dot and the name of the zone fails and gives no line; when
\* it ends so, the owner name of the line is the reverse pointer without
\* that ending.
C19_PtrSuffix ==
    PtrMade =>
        LET rev == reverse_pointer(fnCall.rec.ip) IN
        IF EndsWith(rev, <<".">> \o fnCall.domain)
        THEN /\ fnCall.out.err = NoError
             /\ Len(fnCall.out.lines) = 1
             /\ fnCall.out.lines[1][1] \o <<".">> \o fnCall.domain = rev
        ELSE fnCall.out.err # NoError /\ fnCall.out.lines = <<>>

(***************************************************************************)
(* The per-host section of a forward zone: Zone0.make_hosts on zones with  *)
(* NS, address, TXT and SSHFP records.  The records of one hostname carry  *)
(* data that no other hostname has, so that a rendered line tells whose    *)
(* record it is.                                                           *)
(***************************************************************************)
MaxHostRecs == 3

T_g == <<"g">>
T_x == <<"x">>

\* The address, text or fingerprint of a record of this hostname
DataOf(hostname, kind) == <<kind>> \o hostname

HostRecUniverse ==
    {[typ |-> "hosts",
      rec |-> [hostname |-> h, ip |-> [version |-> v],
               ip_str |-> DataOf(h, IF v = 4 THEN "4" ELSE "6"), ttl |-> None]] :
        h \in {T_host, T_g}, v \in {4, 6}}
    \cup {[typ |-> "ns", rec |-> [hostname |-> h, ns |-> T_far, ttl |-> None]] :
        h \in {<<>>, T_host}}
    \cup {[typ |-> "txt", rec |-> [hostname |-> h, txt |-> DataOf(h, "t"), ttl |-> None]] :
        h \in {T_host, T_x}}
    \cup {[typ |-> "sshfp",
           rec |-> [hostname |-> h, keytype |-> 1, hashtype |-> 1,
                    fingerprint |-> DataOf(h, "f"), ttl |-> None]] :
        h \in {T_host, T_x}}

\* The zone of these records, with the tables of get_zone_data
HostZoneOf(recs) ==
    [domain |-> T_b,
     ns |-> Table(recs, "ns"), mx |-> <<>>, txt |-> Table(recs, "txt"),
     hosts |-> Table(recs, "hosts"), cnames |-> <<>>, sshfp |-> Table(recs, "sshfp"),
     dkim |-> <<>>, srv |-> <<>>]

HostsStart(recs) ==
    [op |-> "hosts", dt |-> HostZoneOf(recs), stage |-> "data", out |-> NoOut]

\* Zone0.make_hosts of the zone
MakeHosts ==
    /\ fnCall.op = "hosts"
    /\ fnCall.stage = "data"
    /\ fnCall' = [fnCall EXCEPT !.stage = "made", !.out = make_hosts(fnCall.dt)]
    /\ UNCHANGED notCall

(***************************************************************************)
(* Claims on the per-host section.                                         *)
(***************************************************************************)
HostsMade == fnCall.op = "hosts" /\ fnCall.stage = "made" /\ fnCall.out.err = NoError

\* The owner name of a rendered record line; none when the column is blank
OwnerOf(l) == IF l[1] = T_IN THEN <<>> ELSE l[1]

\* The positions of the rendered lines of this type with this data
LinesWith(rrname, data) ==
    {k \in DOMAIN fnCall.out.lines :
        LET l == fnCall.out.lines[k] IN
        IsRecordLine(l) /\ RRType(l) = rrname /\ l[Len(l)] = data}

\* The positions of the rendered address lines of a hostname
AddressLines(hostname) ==
    LinesWith(T_A, DataOf(hostname, "4")) \cup LinesWith(T_AAAA, DataOf(hostname, "6"))

\* The hostnames that own an NS record of the zone
Delegated ==
    {fnCall.dt.ns[i].hostname : i \in {k \in DOMAIN fnCall.dt.ns :
                                          fnCall.dt.ns[k].hostname # <<>>}}

HostNames == {fnCall.dt.hosts[i].hostname : i \in DOMAIN fnCall.dt.hosts}

\* C14: the per-host section holds no address line and no TXT or SSHFP line
\* of a hostname that owns an NS record of the zone.
C14_DelegatedSkipped ==
    HostsMade =>
        \A h \in Delegated :
            /\ AddressLines(h) = {}
            /\ LinesWith(T_TXT, <<"\"">> \o DataOf(h, "t") \o <<"\"">>) = {}
            /\ LinesWith(T_SSHFP, DataOf(h, "f")) = {}

\* C15: the address lines of a hostname that owns no NS record follow one
\* another without a line between them; the first carries the hostname as
\* owner, the others have a blank owner column.
C15_OneOwnerLine ==
    HostsMade =>
        \A h \in HostNames \ Delegated :
            LET at == AddressLines(h) IN
            \A k \in at :
                IF \A j \in at : k <= j
                THEN OwnerOf(fnCall.out.lines[k]) = h
                ELSE (k - 1) \in at /\ OwnerOf(fnCall.out.lines[k]) = <<>>

\* The last rendered address line
LastAddressLine ==
    LET at == UNION {AddressLines(h) : h \in HostNames} IN
    IF at = {} THEN 0 ELSE CHOOSE k \in at : \A j \in at : j <= k

\* C16: every TXT and SSHFP record whose hostname is that of no address
\* record of the zone is rendered under its own hostname, after the
\* address lines of the zone.
C16_LeftoversRendered ==
    HostsMade =>
        /\ \A i \in DOMAIN fnCall.dt.txt :
              LET rec == fnCall.dt.txt[i] IN
              rec.hostname \notin HostNames =>
                 \E k \in LinesWith(T_TXT, <<"\"">> \o rec.txt \o <<"\"">>) :
                    k > LastAddressLine /\ OwnerOf(fnCall.out.lines[k]) = rec.hostname
        /\ \A i \in DOMAIN fnCall.dt.sshfp :
              LET rec == fnCall.dt.sshfp[i] IN
              rec.hostname \notin HostNames =>
                 \E k \in LinesWith(T_SSHFP, rec.fingerprint) :
                    k > LastAddressLine /\ OwnerOf(fnCall.out.lines[k]) = rec.hostname

(***************************************************************************)
(* Single records: Zone0.mkrecord on MX, NS, CNAME and SRV records with    *)
(* targets of zero to three dots, and on TXT and DKIM records with         *)
(* payloads around the multiples of the chunk size.                        *)
(***************************************************************************)
MaxChunks == 2

T_abc == <<"a", ".", "b", ".", "c">>

DotTargets ==
    { <<"a">>, <<"a", ".">>, <<"a", ".", "b">>, <<"a", ".", "b", ".">>, T_abc,
      Append(T_abc, "."), T_abc \o <<".", "d">> }

\* A text of n characters in which neighbours differ
TextOfLen(n) == [i \in 1..n |-> DigitChar(i % 10)]

PayloadLens ==
    {1} \cup {k * TxtLimit + d : k \in 1..MaxChunks, d \in {-1, 0, 1}}

\* The key lengths that bring a DKIM payload of this form to those lengths
DkimKeyLens(with_t, subdomains) ==
    LET base == Len(dkim_data([g |-> None, k |-> <<"r">>, t |-> with_t,
                               subdomains |-> subdomains, h |-> None, key_pub |-> <<>>]))
    IN  {n - base : n \in {x \in PayloadLens : x > base}}

TargetRecords ==
    {[rr |-> "mx", rec |-> [hostname |-> <<>>, priority |-> 10, mx |-> t, ttl |-> None]] :
        t \in DotTargets}
    \cup {[rr |-> "ns", rec |-> [hostname |-> <<>>, ns |-> t, ttl |-> None]] :
        t \in DotTargets}
    \cup {[rr |-> "cnames", rec |-> [hostname |-> T_w, hostname0 |-> t, ttl |-> None]] :
        t \in DotTargets}
    \cup {[rr |-> "srv",
           rec |-> [hostname |-> <<>>, name |-> <<>>, service |-> T_x,
                    protocol |-> <<"t", "c", "p">>, priority |-> 5, weight |-> 0,
                    port |-> 22, target |-> t, ttl |-> None]] :
        t \in DotTargets}

TextRecords ==
    {[rr |-> "txt", rec |-> [hostname |-> h, txt |-> TextOfLen(n), ttl |-> None]] :
        h \in {<<>>, T_host}, n \in PayloadLens}
    \cup UNION {
        {[rr |-> "dkim",
          rec |-> [hostname |-> <<>>, selector |-> T_x, g |-> None, k |-> <<"r">>,
                   t |-> f.t, subdomains |-> f.s, h |-> None,
                   key_pub |-> TextOfLen(n), ttl |-> None]] :
            n \in DkimKeyLens(f.t, f.s)} :
        f \in [t : BOOLEAN, s : BOOLEAN]}

RecordStart(r) ==
    [op |-> "record", rr |-> r.rr, rec |-> r.rec, stage |-> "data", out |-> NoOut]

\* mkrecord(rr, rec)
MkRecordCall ==
    /\ fnCall.op = "record"
    /\ fnCall.stage = "data"
    /\ fnCall' = [fnCall EXCEPT !.stage = "made", !.out = mkrecord(fnCall.rr, fnCall.rec)]
    /\ UNCHANGED notCall

(***************************************************************************)
(* Claims on single records.                                               *)
(***************************************************************************)
RecordMade == fnCall.op = "record" /\ fnCall.stage = "made" /\ fnCall.out.err = NoError

\* The data items of the rendered line: those after the type
DataItems ==
    LET l == fnCall.out.lines[1]
        k == CHOOSE i \in DOMAIN l : l[i] = T_IN /\ \A j \in 1..(i - 1) : l[j] # T_IN
    IN  SubSeq(l, k + 2, Len(l))

\* The stored target of an MX, NS, CNAME or SRV record
TargetOf(rr, rec) ==
    CASE rr = "mx" -> rec.mx [] rr = "ns" -> rec.ns [] rr = "cnames" -> rec.hostname0
      [] rr = "srv" -> rec.target

\* C17: the rendered target of an MX, NS, CNAME or SRV record is the stored
\* target with one dot appended when the stored target holds two dots or
\* more and does not end in a dot, and the stored target itself otherwise.
C17_DotIffTwoDots ==
    (RecordMade /\ fnCall.rr \in {"mx", "ns", "cnames", "srv"}) =>
        LET target == TargetOf(fnCall.rr, fnCall.rec) IN
        DataItems[Len(DataItems)] =
            IF Count(target, ".") >= 2 /\ target[Len(target)] # "."
            THEN Append(target, ".") ELSE target

\* The payload of a TXT or DKIM record
PayloadOf(rr, rec) == IF rr = "txt" THEN rec.txt ELSE dkim_data(rec)

IsQuoted(item) == Len(item) >= 2 /\ item[1] = "\"" /\ item[Len(item)] = "\""

Unquoted(item) == SubSeq(item, 2, Len(item) - 1)

\* C18: the data of a rendered TXT or DKIM record whose payload is longer
\* than 255 characters are several quoted strings of at most 255 characters
\* each, which give the payload when put together in their order.
C18_LongTextChunked ==
    (RecordMade /\ fnCall.rr \in {"txt", "dkim"}
       /\ Len(PayloadOf(fnCall.rr, fnCall.rec)) > 255) =>
        /\ Len(DataItems) >= 2
        /\ \A i \in DOMAIN DataItems :
              IsQuoted(DataItems[i]) /\ Len(Unquoted(DataItems[i])) <= 255
        /\ Flatten([i \in DOMAIN DataItems |-> Unquoted(DataItems[i])])
              = PayloadOf(fnCall.rr, fnCall.rec)

(***************************************************************************)
(* The key tag: dnssec.calc_dnssec_keyid (keyparser.calc_dnssec_keyid is   *)
(* the same code) with struct.pack('!HBB', ...) and base64.b64decode.  The *)
(* key texts are made of the characters A, Q, w and / (the values 0, 16,   *)
(* 48 and 63), the padding character and the space.                        *)
(***************************************************************************)
Base64Alphabet ==
    << "A", "B", "C", "D", "E", "F", "G", "H", "I", "J", "K", "L", "M", "N", "O", "P",
       "Q", "R", "S", "T", "U", "V", "W", "X", "Y", "Z", "a", "b", "c", "d", "e", "f",
       "g", "h", "i", "j", "k", "l", "m", "n", "o", "p", "q", "r", "s", "t", "u", "v",
       "w", "x", "y", "z", "0", "1", "2", "3", "4", "5", "6", "7", "8", "9", "+", "/" >>

Base64Value(c) == (CHOOSE i \in DOMAIN Base64Alphabet : Base64Alphabet[i] = c) - 1

\* st.replace(' ', '')
WithoutSpaces(st) == SelectSeq(st, LAMBDA c : c # " ")

\* The bytes of the groups of four characters from position i on; the last
\* group may end in one or two padding characters
RECURSIVE DecodeFrom(_, _)
DecodeFrom(st, i) ==
    IF i > Len(st) THEN <<>>
    ELSE LET v1 == Base64Value(st[i])
             v2 == Base64Value(st[i + 1])
             b1 == (v1 * 4 + v2 \div 16) % 256
         IN  IF st[i + 2] = "=" THEN <<b1>>
             ELSE LET v3 == Base64Value(st[i + 2])
                      b2 == ((v2 % 16) * 16 + v3 \div 4) % 256
                  IN  IF st[i + 3] = "=" THEN <<b1, b2>>
                      ELSE <<b1, b2, (v3 % 4) * 64 + Base64Value(st[i + 3])>>
                           \o DecodeFrom(st, i + 4)

\* Whether the text is groups of four characters of the alphabet, the last
\* one ending in at most two padding characters
WellPadded(st) ==
    /\ Len(st) % 4 = 0
    /\ \A i \in DOMAIN st :
          \/ \E k \in DOMAIN Base64Alphabet : Base64Alphabet[k] = st[i]
          \/ /\ st[i] = "="
             /\ i >= Len(st) - 1
             /\ \A j \in i..Len(st) : st[j] = "="

\* base64.b64decode of such a text; binascii.Error on a text whose length
\* is no multiple of four
b64decode(st) ==
    IF WellPadded(st) THEN Returns(DecodeFrom(st, 1))
    ELSE [err |-> "binascii.Error", out |-> <<>>]

\* struct.pack('!HBB', flags, protocol, algorithm)
pack_HBB(flags, protocol, algorithm) ==
    IF flags \in 0..65535 /\ protocol \in 0..255 /\ algorithm \in 0..255
    THEN Returns(<<flags \div 256, flags % 256, protocol, algorithm>>)
    ELSE [err |-> "struct.error", out |-> <<>>]

\* The loop over the bytes: the byte at an even index counts as a high byte
RECURSIVE KeyidLoop(_, _, _)
KeyidLoop(st2, idx, cnt) ==
    IF idx >= Len(st2) THEN cnt
    ELSE KeyidLoop(st2, idx + 1,
                   IF idx % 2 = 0 THEN cnt + st2[idx + 1] * 256 ELSE cnt + st2[idx + 1])

\* The key tag without the carry of the sum
calc_dnssec_keyid_nocarry(flags, protocol, algorithm, st) ==
    LET head == pack_HBB(flags, protocol, algorithm)
        key  == b64decode(WithoutSpaces(st))
    IN  IF head.err # NoError THEN head
        ELSE IF key.err # NoError THEN key
        ELSE Returns(KeyidLoop(head.out \o key.out, 0, 0) % 65536)

\* dnssec.calc_dnssec_keyid
calc_dnssec_keyid(flags, protocol, algorithm, st) ==
    LET head == pack_HBB(flags, protocol, algorithm)
        key  == b64decode(WithoutSpaces(st))
    IN  IF head.err # NoError THEN head
        ELSE IF key.err # NoError THEN key
        ELSE LET cnt == KeyidLoop(head.out \o key.out, 0, 0) IN
             Returns(((cnt % 65536) + (cnt \div 65536)) % 65536)

MaxKeyGroups == 2

\* One group of four characters: three bytes, or two or one with padding
KeyGroups ==
    {<<a, b, c, d>> : a \in {"A", "/"}, b \in {"Q", "/"}, c \in {"A", "/"}, d \in {"Q", "/"}}

LastGroups ==
    {<<a, b, c, "=">> : a \in {"A", "/"}, b \in {"Q", "/"}, c \in {"A", "w"}}
    \cup {<<a, b, "=", "=">> : a \in {"A", "/"}, b \in {"A", "w"}}

\* Key texts: whole groups, then at most one padded group; also with a
\* space between two groups, and one text that is cut short
KeyTexts ==
    LET whole == {Flatten(l) : l \in ListsOf(KeyGroups, MaxKeyGroups - 1)}
    IN  {w \o g : w \in whole, g \in KeyGroups \cup LastGroups \cup {<<>>}}
        \cup {w \o <<" ">> \o g : w \in whole \ {<<>>}, g \in LastGroups}
        \cup {<<"A", "Q", "A">>}

KeyidStart(flags, algorithm, st) ==
    [op |-> "keyid", flags |-> flags, protocol |-> 3, algorithm |-> algorithm, st |-> st,
     stage |-> "data", out |-> Returns(0)]

CalcDnssecKeyid ==
    /\ fnCall.op = "keyid"
    /\ fnCall.stage = "data"
    /\ fnCall' = [fnCall EXCEPT !.stage = "made",
                     !.out = calc_dnssec_keyid(fnCall.flags, fnCall.protocol,
                                               fnCall.algorithm, fnCall.st)]
    /\ UNCHANGED notCall

(***************************************************************************)
(* Claims on the key tag.                                                  *)
(***************************************************************************)
\* The bytes the tag is taken of: header, then the key
KeyBytes ==
    pack_HBB(fnCall.flags, fnCall.protocol, fnCall.algorithm).out
    \o b64decode(WithoutSpaces(fnCall.st)).out

\* The sum of the big-endian words of the first 2 * n bytes, a missing low
\* byte counting as zero
RECURSIVE WordSum(_, _)
WordSum(bytes, n) ==
    IF n = 0 THEN 0
    ELSE WordSum(bytes, n - 1) + bytes[2 * n - 1] * 256
         + (IF 2 * n <= Len(bytes) THEN bytes[2 * n] ELSE 0)

KeyidMade == fnCall.op = "keyid" /\ fnCall.stage = "made" /\ fnCall.out.err = NoError

\* C20: the key tag is ((S mod 65536) + floor(S / 65536)) mod 65536 for the
\* sum S of the words of header and key, and lies in 0..65535.
C20_KeyTag ==
    KeyidMade =>
        LET S == WordSum(KeyBytes, (Len(KeyBytes) + 1) \div 2) IN
        /\ fnCall.out.out = ((S % 65536) + (S \div 65536)) % 65536
        /\ fnCall.out.out \in 0..65535

\* A key of an odd number of bytes whose sum of words has a carry
C20_Witness ==
    /\ KeyidMade
    /\ Len(KeyBytes) % 2 = 1
    /\ WordSum(KeyBytes, (Len(KeyBytes) + 1) \div 2) >= 65536
    /\ fnCall.out.out # WordSum(KeyBytes, (Len(KeyBytes) + 1) \div 2) % 65536

(***************************************************************************)
(* Claims on the date policy and on what a run leaves in the database.     *)
(***************************************************************************)
\* The digits of a date-form serial that follow its first eight, as a number
CounterOf(old) == (old.q % Pow10(NumDigits(old.q) - 8)) * 100 + old.r

\* The serial written as the eight digits of a date followed by a counter of
\* at least two digits
DateSerial(date, counter) ==
    IF counter < 100 THEN Ser(date, counter)
    ELSE Ser(date * Pow10(NumDigits(counter) - 2) + counter \div 100, counter % 100)

\* A run that asked the database source to increment a date-form serial
DateIncrement(run) ==
    /\ run.n > 0
    /\ run.inc
    /\ run.changed
    /\ run.max_idx = 1
    /\ IsDateForm(run.oldserial)

\* C21: for an old serial in date form, when its first eight digits are
\* today's date the new serial keeps the date and has the counter nn + 1;
\* when its date is earlier than today the new serial is today's date
\* followed by 00; when its date is in the future the run raises and the
\* stored serial stays as it was.
C21_DatePolicy ==
    [][(gen'.n # gen.n /\ DateIncrement(gen')) =>
         LET old == gen'.oldserial IN
         IF Prefix8(old) = Ser0
         THEN /\ gen'.raised # "Exception"
              /\ gen'.serial = DateSerial(Ser0, CounterOf(old) + 1)
         ELSE IF Prefix8(old) < Ser0
         THEN /\ gen'.raised # "Exception"
              /\ gen'.serial = Ser(Ser0, 0)
         ELSE /\ gen'.raised = "Exception"
              /\ domainsRow' = domainsRow]_vars

\* C22: the serial the date policy returns for a date-form serial has ten
\* digits, the date followed by a counter from 00 to 99.
C22_TenDigits ==
    (DateIncrement(gen) /\ gen.raised # "Exception") =>
        /\ NumDigits(gen.serial.q) = 8
        /\ gen.serial.r \in 0..99

\* The dynamic source as the last run saw it
DynamicReported(run) == Len(run.reported) = 2 /\ run.reported[2].has

\* Nothing changed since the last run stored its serial: no record was
\* edited, the dynamic entries are as they were, and the name server has
\* applied no dynamic update
NothingChangedSince(run) ==
    /\ run.n > 0
    /\ run.setSerial # <<>>
    /\ domainsRow.serial = run.serial
    /\ domainsRow.ts = domainsRow.updated
    /\ dynData = DynamicReported(run)
    /\ zoneFileSerial.n = 0

\* C23: a run with increment requested that follows a run which advanced
\* and stored the serial, with no change of data in between, finds no
\* source changed and produces the serial of the run before it.
C23_RepeatKeepsSerial ==
    [][(NothingChangedSince(gen) /\ gen'.n # gen.n /\ gen'.inc) =>
         /\ ~gen'.changed
         /\ gen'.serial = gen.serial]_vars

\* C24: a run whose rendering fails leaves the serial stored for the domain
\* as it was before the run.
C24_RenderFailureKeepsSerial ==
    [][(gen'.n # gen.n /\ gen'.raised = "render") =>
         domainsRow'.serial = domainsRow.serial]_vars

(***************************************************************************)
(* Claims on parentheses inside quoted strings.                            *)
(***************************************************************************)
\* Reading a text once, character by character, with its comments left out:
\* the parentheses met between double quotes, in their order, and whether a
\* parenthesis outside quotes is open at the end
RECURSIVE ReadParens(_, _, _, _, _, _)
ReadParens(st, i, in_quotes, in_comment, open, quoted) ==
    IF i > Len(st) THEN [open |-> open, quoted |-> quoted]
    ELSE LET x == st[i] IN
         IF x = "\n" THEN ReadParens(st, i + 1, in_quotes, FALSE, open, quoted)
         ELSE IF in_comment THEN ReadParens(st, i + 1, in_quotes, in_comment, open, quoted)
         ELSE IF x = "\"" THEN ReadParens(st, i + 1, ~in_quotes, in_comment, open, quoted)
         ELSE IF in_quotes
              THEN ReadParens(st, i + 1, in_quotes, in_comment, open,
                              IF x \in {"(", ")"} THEN Append(quoted, x) ELSE quoted)
         ELSE IF x = ";" THEN ReadParens(st, i + 1, in_quotes, TRUE, open, quoted)
         ELSE IF x = "(" THEN ReadParens(st, i + 1, in_quotes, in_comment, TRUE, quoted)
         ELSE IF x = ")" THEN ReadParens(st, i + 1, in_quotes, in_comment, FALSE, quoted)
         ELSE ReadParens(st, i + 1, in_quotes, in_comment, open, quoted)

QuotedParens(text) == ReadParens(text, 1, FALSE, FALSE, FALSE, <<>>).quoted

OpenAfter(text) == ReadParens(text, 1, FALSE, FALSE, FALSE, <<>>).open

\* The parentheses of a string, in their order
ParensOf(st) == SelectSeq(st, LAMBDA x : x \in {"(", ")"})

\* The first n lines of a text
FirstLines(text, n) == JoinLines(SubSeq(splitlines(text), 1, n))

\* C25: the parentheses of a merged line are the parentheses that stand
\* between double quotes in the text, each kept in its place, so that every
\* parenthesis outside quotes is removed; and the open-parenthesis state
\* that line_ends_in_parentheses carries from line to line is the one the
\* parentheses outside quotes give, whatever parentheses the quoted strings
\* hold.
C25_QuotedParenthesesKept ==
    /\ (mg.stage = "merged" /\ mg.result.err = NoError) =>
          ParensOf(mg.result.out) = QuotedParens(mg.text)
    /\ (mg.stage = "lines" /\ mg.raised = NoError) =>
          mg.in_parentheses = OpenAfter(FirstLines(mg.text, mg.n))

\* A text with a parenthesis between quotes and a pair outside them was merged
C25_Witness ==
    /\ mg.stage = "merged"
    /\ mg.result.err = NoError
    /\ ParensOf(mg.result.out) # <<>>
    /\ Len(ParensOf(mg.text)) > Len(ParensOf(mg.result.out))

(***************************************************************************)
(* The items before the RR type: parse_line on one line, and read() on a   *)
(* file of that line followed by one A record.                             *)
(***************************************************************************)
\* parsing.is_ttl
parsing_is_ttl(st) ==
    /\ st # <<>>
    /\ st[1] \in Digits
    /\ ~Contains(st, <<".">>)

MaxHead == 3

T_10 == <<"1", "0">>
T_20dot == <<"2", "0", ".">>
T_1arpa == <<"1", "a", "r", "p", "a">>

\* Items that can stand before the RR type: numbers, names, a name of a
\* reverse zone ("1.2" there is the owner of a PTR record) and IN
HeadItems == {T_10, T_1H, T_ip, T_20dot, T_1arpa, T_host, T_x, T_IN}

\* The A record that follows the line in the file
FollowLine == <<T_g, T_IN, T_A, T_ip>>

HeadStart(head) ==
    [op |-> "head", items |-> head \o <<T_A, T_ip>>, head |-> head, stage |-> "line",
     parsed |-> NoLine, parsing_ttl |-> <<>>, st |-> ReadStart(T_b, FALSE),
     alone |-> ReadStart(T_b, FALSE)]

\* parse_line(line), and is_ttl of vdns.parsing on each item before the type
ParseLine ==
    /\ fnCall.op = "head"
    /\ fnCall.stage = "line"
    /\ fnCall' = [fnCall EXCEPT
                    !.stage = "parsed",
                    !.parsed = parse_line(fnCall.items),
                    !.parsing_ttl = [i \in DOMAIN fnCall.head |->
                                        parsing_is_ttl(fnCall.head[i])]]
    /\ UNCHANGED notCall

\* read() of the file that holds the line and the A record after it, and of
\* the file that holds the A record alone
ReadFile ==
    /\ fnCall.op = "head"
    /\ fnCall.stage = "parsed"
    /\ fnCall' = [fnCall EXCEPT
                    !.stage = "read",
                    !.st = ReadLines(ReadStart(T_b, FALSE), <<fnCall.items, FollowLine>>),
                    !.alone = ReadLines(ReadStart(T_b, FALSE), <<FollowLine>>)]
    /\ UNCHANGED notCall

\* The items before the type that are not IN
NamesAndTtls(head) == SelectSeq(head, LAMBDA x : x # T_IN)

\* A TTL as the text describes it: a leading digit, no dot and no 'arpa'
LooksLikeTtl(st) ==
    /\ st # <<>>
    /\ st[1] \in Digits
    /\ ~Contains(st, <<".">>)
    /\ ~Contains(st, <<"a", "r", "p", "a">>)

\* C26: on a line with one item besides IN before the RR type, that item is
\* taken as the TTL exactly when it begins with a digit and holds neither a
\* dot nor 'arpa', and is taken as the owner name otherwise; is_ttl of
\* vdns.parsing gives the same answer on it.
C26_TtlIffDigitNoDotNoArpa ==
    (fnCall.op = "head" /\ fnCall.stage # "line"
     /\ Len(NamesAndTtls(fnCall.head)) = 1) =>
        LET item == NamesAndTtls(fnCall.head)[1]
            idx  == CHOOSE i \in DOMAIN fnCall.head : fnCall.head[i] = item
        IN  /\ ~fnCall.parsed.none
            /\ IF LooksLikeTtl(item)
               THEN fnCall.parsed.ttl = item /\ fnCall.parsed.addr1 = NoName
               ELSE fnCall.parsed.ttl = <<>> /\ fnCall.parsed.addr1 = item
            /\ fnCall.parsing_ttl[idx] = LooksLikeTtl(item)

\* The items before the type that are left over after one TTL and one owner
\* name are taken away
LeftOver(head) ==
    LET items == NamesAndTtls(head)
        ttls  == IF \E i \in DOMAIN items : is_ttl(items[i]) THEN 1 ELSE 0
        rest  == Len(items) - ttls
    IN  IF rest > 1 THEN rest - 1 ELSE 0

\* C27: a line with items left over before the RR type, after one TTL, one
\* owner name and every IN are taken away, gives no record and no error:
\* parse_line returns None, and read() leaves the file as if the line were
\* not there, storing the record of the line that follows.
C27_LeftOverLineSkipped ==
    (fnCall.op = "head" /\ LeftOver(fnCall.head) >= 1) =>
        /\ fnCall.stage # "line" => fnCall.parsed.none
        /\ fnCall.stage = "read" =>
              /\ fnCall.st.err = NoError
              /\ fnCall.st = fnCall.alone
              /\ Len(fnCall.st.dt.a) = 1
              /\ fnCall.st.dt.a[1].addr1 = T_g

\* A line with two items left over was read with the line after it
C27_Witness ==
    /\ fnCall.op = "head"
    /\ fnCall.stage = "read"
    /\ LeftOver(fnCall.head) >= 2
    /\ Len(fnCall.st.dt.a) = 1

(***************************************************************************)
(* DKIM records of vdns.rr: DKIM._records renders the payload that the     *)
(* dkim branch of Zone0.mkrecord renders, and DKIM._parse_dkim reads an    *)
(* owner name and a payload back into a record.                            *)
(***************************************************************************)
T_domainkey == <<"_", "d", "o", "m", "a", "i", "n", "k", "e", "y">>
T_DKIM1 == <<"D", "K", "I", "M", "1">>

\* DKIM.cooked_hostname
dkim_cooked_hostname(rec) ==
    rec.selector \o <<".">> \o T_domainkey
    \o (IF rec.hostname # <<>> THEN <<".">> \o rec.hostname ELSE <<>>)

\* DKIM._records: the quoted strings of the payload
dkim_records(rec) == split_txt(dkim_data(rec))

\* st.split(ch)
RECURSIVE SplitOnFrom(_, _, _, _)
SplitOnFrom(st, ch, i, cur) ==
    IF i > Len(st) THEN <<cur>>
    ELSE IF st[i] = ch THEN <<cur>> \o SplitOnFrom(st, ch, i + 1, <<>>)
    ELSE SplitOnFrom(st, ch, i + 1, Append(cur, st[i]))

SplitOn(st, ch) == SplitOnFrom(st, ch, 1, <<>>)

\* The index of the first ch of st, 0 when there is none
FirstIndex(st, ch) ==
    IF \E i \in DOMAIN st : st[i] = ch
    THEN CHOOSE i \in DOMAIN st : st[i] = ch /\ \A j \in 1..(i - 1) : st[j] # ch
    ELSE 0

\* The loop of _parse_dkim over the entries of the payload
RECURSIVE ParseDkimFrom(_, _, _)
ParseDkimFrom(entries, i, acc) ==
    IF i > Len(entries) \/ acc.err # NoError THEN acc
    ELSE LET entry == StripWs(entries[i])
             eq    == FirstIndex(entry, "=")
             key   == SubSeq(entry, 1, eq - 1)
             value == SubSeq(entry, eq + 1, Len(entry))
         IN  IF eq = 0 THEN [acc EXCEPT !.err = "ValueError"]
             ELSE ParseDkimFrom(entries, i + 1,
                    CASE key = <<"v">> ->
                           IF value = T_DKIM1 THEN acc
                           ELSE [acc EXCEPT !.err = "AssertionError"]
                      [] key = <<"g">> -> [acc EXCEPT !.g = Some(value)]
                      [] key = <<"p">> -> [acc EXCEPT !.key_pub = value]
                      [] key = <<"k">> -> [acc EXCEPT !.k = value]
                      [] key = <<"t">> ->
                           CASE value = <<"y">> ->
                                  [acc EXCEPT !.subdomains = TRUE, !.t = TRUE]
                             [] value = <<"s", ":", "y">> ->
                                  [acc EXCEPT !.subdomains = FALSE, !.t = TRUE]
                             [] value = <<"s">> -> [acc EXCEPT !.t = FALSE]
                             [] value = <<>> -> acc
                             [] OTHER -> [acc EXCEPT !.err = "AbortError"]
                      [] key = <<"h">> -> [acc EXCEPT !.h = Some(value)]
                      [] OTHER -> acc)

\* DKIM._parse_dkim
_parse_dkim(addr1, addr2) ==
    LET addr1_split == SplitDots(addr1)
        hostname == IF Len(addr1_split) > 2
                    THEN JoinDots(SubSeq(addr1_split, 3, Len(addr1_split)))
                    ELSE <<>>
        payload  == IF Len(addr2) >= 1 /\ addr2[1] = "\"" /\ addr2[Len(addr2)] = "\""
                    THEN SubSeq(addr2, 2, Len(addr2) - 1)
                    ELSE addr2
        start    == [err |-> NoError, hostname |-> hostname, selector |-> addr1_split[1],
                     k |-> <<>>, key_pub |-> <<>>, g |-> None, t |-> FALSE, h |-> None,
                     subdomains |-> FALSE]
        parsed   == ParseDkimFrom(SplitOn(payload, ";"), 1, start)
    IN  IF Len(addr1_split) < 2 THEN [start EXCEPT !.err = "IndexError"]
        ELSE IF addr1_split[2] # T_domainkey THEN [start EXCEPT !.err = "AssertionError"]
        ELSE IF parsed.err # NoError THEN parsed
        ELSE IF parsed.k = <<>> \/ parsed.key_pub = <<>>
             THEN [parsed EXCEPT !.err = "AssertionError"]
        ELSE parsed

\* DKIM records of the selector x with a key that fits in one string
DkimRecords ==
    {[hostname |-> hn, selector |-> T_x, g |-> g, k |-> <<"r", "s", "a">>,
      t |-> t, subdomains |-> s, h |-> h, key_pub |-> key, ttl |-> None] :
        hn \in {<<>>, T_host}, g \in {None, Some(<<"*">>)}, t \in BOOLEAN,
        s \in BOOLEAN, h \in {None, Some(<<"s", "h", "a", "2", "5", "6">>)},
        key \in {<<"A">>, <<"A", "B", "=", "=">>}}

NotParsed == [err |-> "notcalled"]

DkimStart(rec) ==
    [op |-> "dkim", rec |-> rec, stage |-> "data", addr1 |-> <<>>, addr2 |-> <<>>,
     parsed |-> NotParsed]

\* DKIM(...)._records() and the owner name of the record
RenderDkim ==
    /\ fnCall.op = "dkim"
    /\ fnCall.stage = "data"
    /\ fnCall' = [fnCall EXCEPT !.stage = "rendered",
                                !.addr1 = dkim_cooked_hostname(fnCall.rec),
                                !.addr2 = dkim_records(fnCall.rec)[1]]
    /\ UNCHANGED notCall

\* DKIM._parse_dkim(addr1, addr2) on what was rendered
ParseDkim ==
    /\ fnCall.op = "dkim"
    /\ fnCall.stage = "rendered"
    /\ fnCall' = [fnCall EXCEPT !.stage = "parsed",
                                !.parsed = _parse_dkim(fnCall.addr1, fnCall.addr2)]
    /\ UNCHANGED notCall

\* C28: for each of the four pairs (t, subdomains), parsing the rendered
\* payload of a DKIM record gives a record with the same t and the same
\* subdomains.
C28_DkimFlagsRoundTrip ==
    (fnCall.op = "dkim" /\ fnCall.stage = "parsed") =>
        /\ fnCall.parsed.err = NoError
        /\ fnCall.parsed.t = fnCall.rec.t
        /\ fnCall.parsed.subdomains = fnCall.rec.subdomains

(***************************************************************************)
(* Claim on the depth of nested transactions.                              *)
(***************************************************************************)
\* C29: whatever the sequence of begin(), commit() and rollback() calls on
\* one handle, transaction_depth is never negative.
C29_DepthNeverNegative == txn.transaction_depth >= 0

(***************************************************************************)
(* Claim on the PTR lines of the host records.                             *)
(***************************************************************************)
\* The host records of the zone that are marked reverse
MarkedHosts == {k \in DOMAIN fnCall.dt.hosts : fnCall.dt.hosts[k].reverse}

\* The PTR line of a host record
PtrLineOf(rec) == mkrecord_ptr(fnCall.dt.domain, rec).lines[1]

\* C30: in the reverse zone rendered for a network from distinct host
\* records of that network, every record marked reverse has its PTR line
\* exactly once, and there are no other PTR lines: as many PTR lines as
\* marked records, none for the records not marked.
C30_OnePtrPerMarkedHost ==
    (/\ RevMade
     /\ \A k \in DOMAIN fnCall.dt.hosts : InNet(fnCall.dt.hosts[k].ip, fnCall.net)
     /\ \A j, k \in DOMAIN fnCall.dt.hosts : j # k => fnCall.dt.hosts[j] # fnCall.dt.hosts[k]) =>
        /\ Len(PtrLines) = Cardinality(MarkedHosts)
        /\ \A k \in MarkedHosts :
              Cardinality({i \in DOMAIN PtrLines :
                              PtrLines[i] = PtrLineOf(fnCall.dt.hosts[k])}) = 1

(***************************************************************************)
(* The specifications.                                                     *)
(***************************************************************************)
InitSerial ==
    /\ \E s \in InitDbSerials, u \in 0..1 :
          domainsRow = [serial |-> s, ts |-> 0, updated |-> u]
    /\ zonedir \in BOOLEAN
    /\ dynData \in {FALSE, zonedir}
    /\ \E f \in InitFileSerials : zoneFileSerial = [n |-> 0, serial |-> f]
    /\ today = 1
    /\ gen = NoRun
    /\ prevOut = SerMinus1
    /\ TxnIdle
    /\ SubIdle
    /\ ReadIdle
    /\ ZoneIdle
    /\ MergeIdle
    /\ CallIdle

NextSerial ==
    \/ \E i \in BOOLEAN, r \in BOOLEAN : doit(i, r)
    \/ DataChange
    \/ DynamicChange
    \/ FileBump
    \/ NextDay

SpecSerial == InitSerial /\ [][NextSerial]_vars

InitTxn ==
    /\ TxnIdle
    /\ SerialIdle
    /\ SubIdle
    /\ ReadIdle
    /\ ZoneIdle
    /\ MergeIdle
    /\ CallIdle

NextTxn ==
    \/ CallBegin
    \/ CallCommit
    \/ CallRollback

SpecTxn == InitTxn /\ [][NextTxn]_vars

InitSub ==
    /\ SubIdle
    /\ ReadIdle
    /\ ZoneIdle
    /\ SerialIdle
    /\ TxnIdle
    /\ MergeIdle
    /\ CallIdle

NextSub ==
    \/ GetZoneData
    \/ SubRaise
    \/ SubRecurse
    \/ SubOverflow
    \/ SubReturn

SpecSub == InitSub /\ [][NextSub]_vars

InitRead ==
    /\ \E zone \in {<<>>, <<"b">>}, is_reverse \in BOOLEAN :
          /\ zp = ReadStart(zone, is_reverse)
          /\ readHist = [n |-> 0, items |-> <<>>, before |-> ReadStart(zone, is_reverse)]
    /\ SerialIdle
    /\ TxnIdle
    /\ SubIdle
    /\ ZoneIdle
    /\ MergeIdle
    /\ CallIdle

NextRead ==
    \/ ReadDirective
    \/ ReadSoaOpen
    \/ ReadSoaClose
    \/ ReadRecordLine

SpecRead == InitRead /\ [][NextRead]_vars

InitZone ==
    /\ \E soattl \in SoaTtls, recs \in RecordLists(MaxRecords) :
          zoneData = ZoneOf(soattl, recs)
    /\ zoneRun = NotRun
    /\ recOut = NoRecOut
    /\ SerialIdle
    /\ TxnIdle
    /\ SubIdle
    /\ ReadIdle
    /\ MergeIdle
    /\ CallIdle

NextZone ==
    \/ Make
    \/ ReadBack
    \/ MkRecord

SpecZone == InitZone /\ [][NextZone]_vars

InitMerge ==
    /\ \E text \in TextsOf(MaxTextLen), with_merge_quotes \in BOOLEAN :
          mg = MergeStart(text, with_merge_quotes)
    /\ SerialIdle
    /\ TxnIdle
    /\ SubIdle
    /\ ReadIdle
    /\ ZoneIdle
    /\ CallIdle

NextMerge ==
    \/ MergeMultiline
    \/ LineEndsInParentheses

SpecMerge == InitMerge /\ [][NextMerge]_vars

InitGlue ==
    /\ \E nss \in ListsOf({[domain |-> T_sb, hostname |-> <<>>, ns |-> t, ttl |-> None] : t \in GlueTargets},
                          MaxGlueNs),
          hosts \in ListsOf(GlueHosts, MaxGlueHosts) :
          fnCall = GlueStart([ns |-> nss, hosts |-> hosts, dnssec |-> <<>>])
    /\ SerialIdle
    /\ TxnIdle
    /\ SubIdle
    /\ ReadIdle
    /\ ZoneIdle
    /\ MergeIdle

NextGlue ==
    \/ GetSubdomainData
    \/ MakeSubzones

SpecGlue == InitGlue /\ [][NextGlue]_vars

InitRev ==
    /\ \/ \E hosts \in ListsOf(RevHosts, MaxRevHosts) : fnCall = RevStart(ZoneNet, hosts)
       \/ \E net \in RevNets, rec \in RevHosts : fnCall = PtrStart(net, rec)
    /\ SerialIdle
    /\ TxnIdle
    /\ SubIdle
    /\ ReadIdle
    /\ ZoneIdle
    /\ MergeIdle

NextRev ==
    \/ MakeReverseZone
    \/ MkRecordPtr

SpecRev == InitRev /\ [][NextRev]_vars

InitHosts ==
    /\ \E recs \in ListsOf(HostRecUniverse, MaxHostRecs) : fnCall = HostsStart(recs)
    /\ SerialIdle
    /\ TxnIdle
    /\ SubIdle
    /\ ReadIdle
    /\ ZoneIdle
    /\ MergeIdle

NextHosts ==
    \/ MakeHosts

SpecHosts == InitHosts /\ [][NextHosts]_vars

InitRecord ==
    /\ \E r \in TargetRecords \cup TextRecords : fnCall = RecordStart(r)
    /\ SerialIdle
    /\ TxnIdle
    /\ SubIdle
    /\ ReadIdle
    /\ ZoneIdle
    /\ MergeIdle

NextRecord ==
    \/ MkRecordCall

SpecRecord == InitRecord /\ [][NextRecord]_vars

InitKeyid ==
    /\ \E flags \in {256, 257}, algorithm \in {8, 13}, st \in KeyTexts :
          fnCall = KeyidStart(flags, algorithm, st)
    /\ SerialIdle
    /\ TxnIdle
    /\ SubIdle
    /\ ReadIdle
    /\ ZoneIdle
    /\ MergeIdle

NextKeyid ==
    \/ CalcDnssecKeyid

SpecKeyid == InitKeyid /\ [][NextKeyid]_vars

InitHead ==
    /\ \E head \in ListsOf(HeadItems, MaxHead) : fnCall = HeadStart(head)
    /\ SerialIdle
    /\ TxnIdle
    /\ SubIdle
    /\ ReadIdle
    /\ ZoneIdle
    /\ MergeIdle

NextHead ==
    \/ ParseLine
    \/ ReadFile

SpecHead == InitHead /\ [][NextHead]_vars

InitDkim ==
    /\ \E rec \in DkimRecords : fnCall = DkimStart(rec)
    /\ SerialIdle
    /\ TxnIdle
    /\ SubIdle
    /\ ReadIdle
    /\ ZoneIdle
    /\ MergeIdle

NextDkim ==
    \/ RenderDkim
    \/ ParseDkim

SpecDkim == InitDkim /\ [][NextDkim]_vars

====
